---------------------------- MODULE Spec2Model ----------------------------
(***************************************************************************)
(* Model of the VaseTexture loft editor (src/readme.md holds the sources   *)
(* of loft-editor.ts, types.ts and export-utils.ts; src/src/main.ts is the *)
(* page entry point).                                                      *)
(*                                                                         *)
(* Numbers.  The program computes in IEEE floating point.  The model uses  *)
(* integers on fixed grids and rounds to the nearest grid value wherever   *)
(* the program stores a number:                                            *)
(*   lengths (positions, radii, heights, displacement)  hundredths         *)
(*   directions (normals, cos, sin, slopes)             thousandths        *)
(*   falloff multipliers                                thousandths        *)
(*   texture coordinates u, v                           1/UvOne            *)
(*   texture repeat                                     tenths             *)
(*   falloff zone sizes                                 hundredths         *)
(*   Bezier parameter t                                 1/TDen             *)
(***************************************************************************)
EXTENDS Integers, Sequences, FiniteSets, TLC

VARIABLES
    loftParams,           \* the loftParams object (the fields the engine reads)
    loftBezierAnchors,    \* the anchor list
    currentTexture,       \* "null", or the decoded image
    loftMesh,             \* geometry of the live body mesh
    capMeshes,            \* [bottom, top]: geometries of the live cap meshes
    selectedAnchorIndex,  \* -1 for null
    selectedHandle,       \* "null", "in", "out"
    isDragging,
    dragCtl,              \* closure variables of initLoftBezierInteractions
    pc,                   \* position inside a stepwise run of updateLoftGeometry
    pass,                 \* loop counter of smoothDisplacedGeometry
    dispLog,              \* per vertex, the scalar offset the last displacement applied
    falloffHeight,        \* argument of the last call of calculateDisplacementFalloff
    falloffMultiplier,    \* its result
    exportOut,            \* what the last export call did
    pendingLoads,         \* image decodes in flight, in the order they were started
    page,                 \* the page around the editor: what main.ts has done
    events                \* number of UI events handled so far

vars == <<loftParams, loftBezierAnchors, currentTexture, loftMesh, capMeshes,
          selectedAnchorIndex, selectedHandle, isDragging, dragCtl, pc, pass,
          dispLog, falloffHeight, falloffMultiplier, exportOut, pendingLoads, page,
          events>>

\* the pointer interaction state
dragVars == <<selectedAnchorIndex, selectedHandle, isDragging, dragCtl>>

\* the position inside a stepwise rebuild
stepVars == <<pc, pass, dispLog>>

\* what only the falloff, export, texture and page specifications change
callVars == <<falloffHeight, falloffMultiplier, exportOut, pendingLoads, page>>

-----------------------------------------------------------------------------
(* Bounds of the model *)

MaxRings == 4
MaxSegments == 4
\* UI events followed from the initial state
MaxEvents == 3
\* pointer and key events followed in the profile editor
MaxEdits == 4

-----------------------------------------------------------------------------
(* Program constants, in the units above *)

DefaultRadius == 200
TotalHeight == 500
Taper == 100
MinRadius == 10
NumAnchors == 5
DefaultHandle == 10
MaxIterations == 20
GeometrySmoothing == 5
SmoothingIntensity == 5
CenterWeight == 4
VerticalWeight == 2
HorizontalWeight == 1
MinRings == 3
MinSegments == 3
DefaultExportScale == 100
FullTurn == 360

\* 1.0 on the grid of directions and of falloff multipliers
One == 1000
\* 1.0 on the grid of lengths
UnitLen == 100
\* 1.0 on the grid of texture coordinates (divisible by 360 and by every
\* ring and segment count of the model, so u and v are exact)
UvOne == 21600
\* 255, the largest value of a colour channel
Byte == 255
\* Math.sin(2 * Math.PI) is -2.4492935982947064e-16 in IEEE doubles, not 0: the
\* z coordinate of column `segments` is a negative non-zero float where that
\* of column 0 is 0.  On the grid this residue is one unit.
SeamSinResidue == 1

-----------------------------------------------------------------------------
(* Arithmetic *)

Abs(a) == IF a < 0 THEN -a ELSE a

Max(a, b) == IF a >= b THEN a ELSE b

Min(a, b) == IF a <= b THEN a ELSE b

\* a / b rounded to the nearest integer (b > 0), halves away from zero
RDiv(a, b) ==
    IF a >= 0 THEN (2 * a + b) \div (2 * b) ELSE -((2 * (-a) + b) \div (2 * b))

\* the element of a one-element set: { F(x) : x \in {v} } computes v once and
\* hands its value to F
The(S) == CHOOSE x \in S : TRUE

RECURSIVE SqrtSearch(_, _, _)
SqrtSearch(n, lo, hi) ==
    IF lo >= hi THEN lo
    ELSE The({ IF mid * mid <= n THEN SqrtSearch(n, mid, hi)
               ELSE SqrtSearch(n, lo, mid - 1) : mid \in {(lo + hi + 1) \div 2} })

\* Math.sqrt, rounded to the nearest integer
Sqrt(n) ==
    LET r == SqrtSearch(n, 0, 46340)
    IN  IF n - r * r > r THEN r + 1 ELSE r

RECURSIVE Pow2(_)
Pow2(k) == IF k = 0 THEN 1 ELSE 2 * Pow2(k - 1)

-----------------------------------------------------------------------------
(* Vectors: <<x, y, z>> *)

Cross(a, b) ==
    << RDiv(a[2] * b[3] - a[3] * b[2], One),
       RDiv(a[3] * b[1] - a[1] * b[3], One),
       RDiv(a[1] * b[2] - a[2] * b[1], One) >>

\* Vector3.normalize: divides by length() || 1
Normalize(a) ==
    LET len == Sqrt(a[1] * a[1] + a[2] * a[2] + a[3] * a[3])
    IN  IF len = 0 THEN a
        ELSE << RDiv(a[1] * One, len), RDiv(a[2] * One, len), RDiv(a[3] * One, len) >>

Neg(a) == << -a[1], -a[2], -a[3] >>

\* sqrt(x*x + z*z) of a position, in hundredths
RadialLength(p) == Sqrt(p[1] * p[1] + p[3] * p[3])

\* Math.cos and Math.sin of (seg / segments) * 2 * PI, in thousandths
CosTable ==
    << <<1000, -500, -500, 1000>>,
       <<1000, 0, -1000, 0, 1000>>,
       <<1000, 309, -809, -809, 309, 1000>>,
       <<1000, 500, -500, -1000, -500, 500, 1000>> >>

SinTable ==
    << <<0, 866, -866, 0>>,
       <<0, 1000, 0, -1000, 0>>,
       <<0, 951, 588, -588, -951, 0>>,
       <<0, 866, 866, 0, -866, -866, 0>> >>

\* cos and sin of seg * 2 * PI / 16, for the grid of 16 segments
CosSixteenths ==
    << 1000, 924, 707, 383, 0, -383, -707, -924, -1000,
       -924, -707, -383, 0, 383, 707, 924, 1000 >>

SinSixteenths ==
    << 0, 383, 707, 924, 1000, 924, 707, 383, 0,
       -383, -707, -924, -1000, -924, -707, -383, 0 >>

CosQ(seg, segments) ==
    IF segments = Len(CosSixteenths) - 1 THEN CosSixteenths[seg + 1]
    ELSE CosTable[segments - 2][seg + 1]

SinQ(seg, segments) ==
    IF segments = Len(SinSixteenths) - 1 THEN SinSixteenths[seg + 1]
    ELSE SinTable[segments - 2][seg + 1]

-----------------------------------------------------------------------------
(* Profile evaluator *)

Anchor(x, y, hin, hout, smooth) ==
    [position |-> <<x, y>>, handleIn |-> hin, handleOut |-> hout, isSmooth |-> smooth]

\* initLoftBezierAnchors: five anchors of uniform radius, the two ends corners
InitAnchors ==
    [i \in 1..NumAnchors |->
        Anchor(DefaultRadius,
               RDiv((i - 1) * TotalHeight, NumAnchors - 1),
               IF i = 1 THEN <<0, 0>> ELSE <<0, -DefaultHandle>>,
               IF i = NumAnchors THEN <<0, 0>> ELSE <<0, DefaultHandle>>,
               i \notin {1, NumAnchors})]

\* denominator of the curve parameter after MaxIterations halvings
TDen == Pow2(MaxIterations + 1)

TLo == Pow2((MaxIterations + 1) \div 2)

\* d * n / TDen rounded to nearest, the product taken in two parts so that it
\* stays within 32 bits for every d a dragged handle can produce
ScaleT(d, n) ==
    LET m  == Abs(d)
        hi == m * (n \div TLo)
        lo == m * (n % TLo)
        q  == (hi + (lo + TDen \div 2) \div TLo) \div (TDen \div TLo)
    IN  IF d >= 0 THEN q ELSE -q

Lerp(a, b, n) == a + ScaleT(b - a, n)

\* the interpolation steps of getPoint are carried on a grid SubGrid times
\* finer than the length grid, and the point is rounded once, at the end
SubGrid == 64

\* CubicBezierCurve3.getPoint: the cubic through four control values, by
\* repeated linear interpolation at t = n / TDen
BezierCoord(p0, p1, p2, p3, n) ==
    LET q0 == Lerp(SubGrid * p0, SubGrid * p1, n)
        q1 == Lerp(SubGrid * p1, SubGrid * p2, n)
        q2 == Lerp(SubGrid * p2, SubGrid * p3, n)
    IN  RDiv(Lerp(Lerp(q0, q1, n), Lerp(q1, q2, n), n), SubGrid)

BezierPoint(a, b, n) ==
    << BezierCoord(a.position[1], a.position[1] + a.handleOut[1],
                   b.position[1] + b.handleIn[1], b.position[1], n),
       BezierCoord(a.position[2], a.position[2] + a.handleOut[2],
                   b.position[2] + b.handleIn[2], b.position[2], n) >>

\* a binary search that returns the x of the curve point as it is
RECURSIVE BisectUnclamped(_, _, _, _, _, _, _)
BisectUnclamped(a, b, height, tMin, tMax, t, iter) ==
    The({ LET error == point[2] - height
          IN  IF iter = MaxIterations THEN point[1]
              ELSE IF error = 0 THEN point[1]
              ELSE IF error > 0
                   THEN The({ BisectUnclamped(a, b, height, tMin, t, mid, iter + 1)
                              : mid \in {(tMin + t) \div 2} })
                   ELSE The({ BisectUnclamped(a, b, height, t, tMax, mid, iter + 1)
                              : mid \in {(t + tMax) \div 2} })
          : point \in {BezierPoint(a, b, t)} })

\* the binary search for the parameter whose height is `height`:
\* tolerance 0.0001 is below the grid, so the test is error = 0
RECURSIVE Bisect(_, _, _, _, _, _, _)
Bisect(a, b, height, tMin, tMax, t, iter) ==
    The({ LET error == point[2] - height
          IN  IF iter = MaxIterations THEN Max(MinRadius, point[1])
              ELSE IF error = 0 THEN Max(MinRadius, point[1])
              ELSE IF error > 0
                   THEN The({ Bisect(a, b, height, tMin, t, mid, iter + 1)
                              : mid \in {(tMin + t) \div 2} })
                   ELSE The({ Bisect(a, b, height, t, tMax, mid, iter + 1)
                              : mid \in {(t + tMax) \div 2} })
          : point \in {BezierPoint(a, b, t)} })

RECURSIVE FindSegment(_, _, _)
FindSegment(anchors, height, i) ==
    IF i > Len(anchors) - 1 THEN DefaultRadius
    ELSE IF height >= anchors[i].position[2] /\ height <= anchors[i + 1].position[2]
         THEN Bisect(anchors[i], anchors[i + 1], height, 0, TDen, TDen \div 2, 0)
         ELSE FindSegment(anchors, height, i + 1)

getRadiusAtHeight(anchors, height) ==
    IF height <= 0 THEN Max(MinRadius, anchors[1].position[1])
    ELSE IF height >= TotalHeight
         THEN Max(MinRadius, anchors[Len(anchors)].position[1])
         ELSE FindSegment(anchors, height, 1)

-----------------------------------------------------------------------------
(* Lathe mesh builder.  A geometry is [pos, nrm, uv, idx]: pos, nrm and uv   *)
(* are functions on the vertex indices 0..count-1, idx is the sequence of    *)
(* triangles.  loftParams.twist is the constant 0, so theta is               *)
(* (seg / segments) * 2 * PI.                                                *)

Count(g) == Cardinality(DOMAIN g.pos)

VertexIndex(ring, seg, segments) == ring * (segments + 1) + seg

RingOf(i, segments) == i \div (segments + 1)

SegOf(i, segments) == i % (segments + 1)

\* a / b rounded to the nearest integer, b of either sign
SDiv(a, b) == IF b > 0 THEN RDiv(a, b) ELSE RDiv(-a, -b)

RingY(ring, rings) == RDiv(ring * TotalHeight, rings - 1)

RingTaper(ring, rings) == UnitLen - RDiv((UnitLen - Taper) * ring, rings - 1)

RingRadius(anchors, ring, rings) ==
    Max(MinRadius,
        RDiv(getRadiusAtHeight(anchors, RingY(ring, rings)) * RingTaper(ring, rings),
             UnitLen))

\* the first loop of createLoftGeometry: ringRadii.push for rings 0..n-1
RECURSIVE RingRadii(_, _, _)
RingRadii(anchors, n, rings) ==
    IF n = 0 THEN <<>>
    ELSE Append(RingRadii(anchors, n - 1, rings), RingRadius(anchors, n - 1, rings))

\* central difference inside, forward and backward difference at the ends
RadiusSlope(ringRadii, ring, rings) ==
    LET r(k) == ringRadii[k + 1]
    IN  IF ring > 0 /\ ring < rings - 1
        THEN RDiv((r(ring + 1) - r(ring - 1)) * One * (rings - 1), 2 * TotalHeight)
        ELSE IF ring = 0 /\ rings > 1
        THEN RDiv((r(1) - r(0)) * One * (rings - 1), TotalHeight)
        ELSE IF ring = rings - 1 /\ rings > 1
        THEN RDiv((r(ring) - r(ring - 1)) * One * (rings - 1), TotalHeight)
        ELSE 0

\* the analytic normal: tangent in theta crossed with the meridional tangent
SlopeNormal(cosTheta, sinTheta, radiusSlope) ==
    Normalize(Cross(<< -sinTheta, 0, cosTheta >>,
                    << -RDiv(radiusSlope * cosTheta, One), One,
                       -RDiv(radiusSlope * sinTheta, One) >>))

VertexV(ring, rings) == RDiv(UvOne * ring, rings - 1)

VertexU(ring, seg, rings, segments, textureRotation) ==
    (RDiv(UvOne * seg, segments)
       + RDiv(textureRotation * VertexV(ring, rings), FullTurn)) % UvOne

LoftIndices(rings, segments) ==
    [k \in 1..(2 * (rings - 1) * segments) |->
        LET q    == (k - 1) \div 2
            ring == q \div segments
            seg  == q % segments
            a    == ring * (segments + 1) + seg
            b    == ring * (segments + 1) + seg + 1
            c    == (ring + 1) * (segments + 1) + seg + 1
            d    == (ring + 1) * (segments + 1) + seg
        IN  IF k % 2 = 1 THEN <<a, b, c>> ELSE <<a, c, d>>]

createLoftGeometry(params, anchors) ==
    LET rings    == params.rings
        segments == params.segments
        verts    == 0..(rings * (segments + 1) - 1)
        ringRadii == RingRadii(anchors, rings, rings)
    IN  [pos |-> [i \in verts |->
                    LET ring == RingOf(i, segments)
                        seg  == SegOf(i, segments)
                    IN  << RDiv(ringRadii[ring + 1] * CosQ(seg, segments), One),
                           RingY(ring, rings),
                           RDiv(ringRadii[ring + 1] * SinQ(seg, segments), One)
                             - (IF seg = segments THEN SeamSinResidue ELSE 0) >>],
         nrm |-> [i \in verts |->
                    LET ring == RingOf(i, segments)
                        seg  == SegOf(i, segments)
                    IN  SlopeNormal(CosQ(seg, segments), SinQ(seg, segments),
                                    RadiusSlope(ringRadii, ring, rings))],
         uv  |-> [i \in verts |->
                    LET ring == RingOf(i, segments)
                        seg  == SegOf(i, segments)
                    IN  << VertexU(ring, seg, rings, segments, params.textureRotation),
                           VertexV(ring, rings) >>],
         idx |-> LoftIndices(rings, segments)]

-----------------------------------------------------------------------------
(* Mesh repair *)

\* flips every normal whose dot product with the radial direction is negative;
\* the 0.001 threshold on the radial length is below the grid
ensureNormalsPointOutward(geometry) ==
    The({ [g EXCEPT !.nrm =
            [i \in DOMAIN g.pos |->
                LET p == g.pos[i]
                    n == g.nrm[i]
                IN  IF (p[1] # 0 \/ p[3] # 0) /\ n[1] * p[1] + n[3] * p[3] < 0
                    THEN Neg(n) ELSE n]] : g \in {geometry} })

recalculateSmoothNormals(geometry, segments, rings) ==
    The({ [g EXCEPT !.nrm =
        [i \in DOMAIN g.pos |->
            LET ring  == RingOf(i, segments)
                p     == g.pos[i]
                prev  == g.pos[i - (segments + 1)]
                next  == g.pos[i + (segments + 1)]
                radiusSlope ==
                    IF ring > 0 /\ ring < rings - 1
                    THEN SDiv((RadialLength(next) - RadialLength(prev)) * One,
                              next[2] - prev[2])
                    ELSE 0
                len   == RadialLength(p)
                \* Math.atan2(0, 0) is 0
                cosTheta == IF len = 0 THEN One ELSE RDiv(p[1] * One, len)
                sinTheta == IF len = 0 THEN 0 ELSE RDiv(p[3] * One, len)
            IN  SlopeNormal(cosTheta, sinTheta, radiusSlope)]] : g \in {geometry} })

\* a seam step that leaves column `segments` as the smoothing left it
EqualizeSeamSkipped(geometry, segments) == geometry

\* copies column 0 of every ring onto column `segments`
EqualizeSeam(geometry, segments) ==
    The({ [g EXCEPT !.pos =
            [i \in DOMAIN g.pos |->
                IF SegOf(i, segments) = segments THEN g.pos[i - segments] ELSE g.pos[i]]]
          : g \in {geometry} })

\* the neighbour column read for seg + segOffset, with the source's wrap-around
NeighborSeg(seg, segOffset, segments) ==
    IF seg + segOffset < 0 THEN segments - 1
    ELSE IF seg + segOffset > segments THEN 1
    ELSE seg + segOffset

\* the weighted neighbours of vertex i as <<vertex, weight in tenths>>: itself
\* 0.4, each ring that exists at distance d in {1, 2} above or below in the same
\* column 0.2 / d, each of the two angular neighbours 0.1, the column before
\* column 0 being segments - 1 and the column after column `segments` being 1
SmoothingNeighbours(i, segments, rings) ==
    LET ring == RingOf(i, segments)
        seg  == SegOf(i, segments)
        column(d) == IF ring + d >= 0 /\ ring + d <= rings - 1
                     THEN << << VertexIndex(ring + d, seg, segments),
                                IF Abs(d) = 1 THEN 2 ELSE 1 >> >>
                     ELSE << >>
    IN  << << i, 4 >>,
           << VertexIndex(ring, IF seg = 0 THEN segments - 1 ELSE seg - 1, segments), 1 >>,
           << VertexIndex(ring, IF seg = segments THEN 1 ELSE seg + 1, segments), 1 >> >>
          \o column(-2) \o column(-1) \o column(1) \o column(2)

\* the sum over the first k neighbours of weight times coordinate c (c = 0: of
\* the weights)
RECURSIVE WeightedSum(_, _, _, _)
WeightedSum(g, neighbours, c, k) ==
    IF k = 0 THEN 0
    ELSE (IF c = 0 THEN 1 ELSE g.pos[neighbours[k][1]][c]) * neighbours[k][2]
           + WeightedSum(g, neighbours, c, k - 1)

\* the weight-normalised average of the positions that g holds around vertex i
WeightedAverage(g, i, segments, rings) ==
    LET neighbours == SmoothingNeighbours(i, segments, rings)
        total == WeightedSum(g, neighbours, 0, Len(neighbours))
    IN  [c \in 1..3 |-> RDiv(WeightedSum(g, neighbours, c, Len(neighbours)), total)]

\* vertices i, i + 1, ... smoothed one after the other, each written back before
\* the next is computed
RECURSIVE SmoothInPlaceFrom(_, _, _, _)
SmoothInPlaceFrom(g, i, segments, rings) ==
    IF i >= Count(g) THEN g
    ELSE SmoothInPlaceFrom(
             IF RingOf(i, segments) \in {0, rings - 1} THEN g
             ELSE [g EXCEPT !.pos[i] = WeightedAverage(g, i, segments, rings)],
             i + 1, segments, rings)

\* a pass of smoothDisplacedGeometry that works in place, in the order of the
\* vertex indices
SmoothPassInPlace(geometry, segments, rings) ==
    SmoothInPlaceFrom(geometry, 0, segments, rings)

\* one pass of smoothDisplacedGeometry: every new position is computed from
\* the positions before the pass
SmoothPass(geometry, segments, rings) ==
    The({ [g EXCEPT !.pos =
        [i \in DOMAIN g.pos |->
            LET ring == RingOf(i, segments)
                seg  == SegOf(i, segments)
                vertical == {o \in {-2, -1, 1, 2} : ring + o >= 0 /\ ring + o < rings}
                wv(o) == VerticalWeight \div Abs(o)
                totalWeight == CenterWeight
                                 + (IF -2 \in vertical THEN wv(-2) ELSE 0)
                                 + (IF -1 \in vertical THEN wv(-1) ELSE 0)
                                 + (IF 1 \in vertical THEN wv(1) ELSE 0)
                                 + (IF 2 \in vertical THEN wv(2) ELSE 0)
                                 + 2 * HorizontalWeight
                vpos(o) == g.pos[VertexIndex(ring + o, seg, segments)]
                hpos(o) == g.pos[VertexIndex(ring, NeighborSeg(seg, o, segments), segments)]
                sum(c) == g.pos[i][c] * CenterWeight
                            + (IF -2 \in vertical THEN vpos(-2)[c] * wv(-2) ELSE 0)
                            + (IF -1 \in vertical THEN vpos(-1)[c] * wv(-1) ELSE 0)
                            + (IF 1 \in vertical THEN vpos(1)[c] * wv(1) ELSE 0)
                            + (IF 2 \in vertical THEN vpos(2)[c] * wv(2) ELSE 0)
                            + hpos(-1)[c] * HorizontalWeight
                            + hpos(1)[c] * HorizontalWeight
            IN  IF ring = 0 \/ ring = rings - 1 THEN g.pos[i]
                ELSE << RDiv(sum(1), totalWeight), RDiv(sum(2), totalWeight),
                        RDiv(sum(3), totalWeight) >>]] : g \in {geometry} })

RECURSIVE SmoothPasses(_, _, _, _)
SmoothPasses(g, segments, rings, passes) ==
    IF passes <= 0 THEN g
    ELSE The({ SmoothPasses(smoothed, segments, rings, passes - 1) :
                 smoothed \in {SmoothPass(g, segments, rings)} })

smoothDisplacedGeometry(g, segments, rings, passes) ==
    EqualizeSeam(SmoothPasses(g, segments, rings, passes), segments)

-----------------------------------------------------------------------------
(* Displacement engine.  A texture is named by a string: "null" (no         *)
(* texture), "undecoded" (a texture whose image is not available), or the    *)
(* name of a decoded image.  An image is [width, height, data], data[y][x]   *)
(* the red channel of the pixel in row y + 1, column x + 1.                  *)

ImageOf(texture) ==
    IF texture = "white"
    THEN [width |-> 3, height |-> 3,
          data |-> << <<255, 255, 255>>, <<255, 255, 255>>, <<255, 255, 255>> >>]
    ELSE [width |-> 3, height |-> 3,
          data |-> << <<0, 255, 0>>, <<255, 128, 0>>, <<128, 0, 255>> >>]

\* t to the k-th power (k a natural number), t and the result in thousandths
RECURSIVE IntPow(_, _)
IntPow(t, k) == IF k = 0 THEN One ELSE RDiv(t * IntPow(t, k - 1), One)

\* Math.pow(t, power) for a power in tenths that is a multiple of one half
PowQ(t, power) ==
    RDiv(IntPow(t, power \div 10) * (IF power % 10 = 5 THEN Sqrt(t * One) ELSE One), One)

\* a falloff whose top zone rises with the height instead of falling
calculateDisplacementFalloffRisingTop(normalizedHeight, params) ==
    IF ~params.falloffEnabled THEN One
    ELSE IF normalizedHeight * UnitLen < params.falloffBottom * UvOne
    THEN PowQ(RDiv(normalizedHeight * UnitLen * One, params.falloffBottom * UvOne),
              params.falloffPower)
    ELSE IF normalizedHeight * UnitLen > (UnitLen - params.falloffTop) * UvOne
    THEN PowQ(One - RDiv((UvOne - normalizedHeight) * UnitLen * One,
                         params.falloffTop * UvOne),
              params.falloffPower)
    ELSE One

\* the falloff multiplier at normalized height v, in thousandths
calculateDisplacementFalloff(normalizedHeight, params) ==
    IF ~params.falloffEnabled THEN One
    ELSE IF normalizedHeight * UnitLen < params.falloffBottom * UvOne
    THEN PowQ(RDiv(normalizedHeight * UnitLen * One, params.falloffBottom * UvOne),
              params.falloffPower)
    ELSE IF normalizedHeight * UnitLen > (UnitLen - params.falloffTop) * UvOne
    THEN PowQ(RDiv((UvOne - normalizedHeight) * UnitLen * One, params.falloffTop * UvOne),
              params.falloffPower)
    ELSE One

\* the red channel read for texture coordinates (u, v): repeat, wrap, floor,
\* the row flipped
SampleRed(image, u, v, params) ==
    LET wrap    == 10 * UvOne
        uSample == (u * params.textureRepeatU) % wrap
        vSample == (v * params.textureRepeatV) % wrap
        x       == (uSample * (image.width - 1)) \div wrap
        y       == ((wrap - vSample) * (image.height - 1)) \div wrap
    IN  image.data[y + 1][x + 1]

\* (red / 255) * scale + bias, in hundredths
RawDisplacement(image, u, v, scale, bias, params) ==
    RDiv(SampleRed(image, u, v, params) * scale, Byte) + bias

\* first pass: the displacement of the first vertex of a ring, sampled at
\* U = 0 and multiplied by the falloff
SeamDisplacement(g, image, ring, scale, bias, params) ==
    LET v == g.uv[VertexIndex(ring, 0, params.segments)][2]
    IN  RDiv(RawDisplacement(image, 0, v, scale, bias, params)
               * calculateDisplacementFalloff(v, params), One)

\* the scalar `displacement` of vertex i when the main loop offsets it
VertexDisplacement(g, image, i, scale, bias, params) ==
    LET ring == RingOf(i, params.segments)
        seg  == SegOf(i, params.segments)
        base == IF seg = 0 \/ seg = params.segments
                THEN SeamDisplacement(g, image, ring, scale, bias, params)
                ELSE RawDisplacement(image, g.uv[i][1], g.uv[i][2], scale, bias, params)
    IN  RDiv(base * calculateDisplacementFalloff(g.uv[i][2], params), One)

\* cross product of two differences of positions, scaled down by 10
CrossOfEdges(a, b) ==
    << RDiv(a[2] * b[3] - a[3] * b[2], 10),
       RDiv(a[3] * b[1] - a[1] * b[3], 10),
       RDiv(a[1] * b[2] - a[2] * b[1], 10) >>

Sub(a, b) == << a[1] - b[1], a[2] - b[2], a[3] - b[3] >>

Add(a, b) == << a[1] + b[1], a[2] + b[2], a[3] + b[3] >>

\* the normal of one triangle, flipped to point away from the axis
FaceNormal(g, tri) ==
    LET vA == g.pos[tri[1]]
        vB == g.pos[tri[2]]
        vC == g.pos[tri[3]]
        n  == Normalize(CrossOfEdges(Sub(vC, vB), Sub(vA, vB)))
        cx == vA[1] + vB[1] + vC[1]
        cz == vA[3] + vB[3] + vC[3]
    IN  IF (cx # 0 \/ cz # 0) /\ n[1] * cx + n[3] * cz < 0 THEN Neg(n) ELSE n

RECURSIVE SumFaceNormals(_, _, _, _)
SumFaceNormals(idx, normals, i, k) ==
    IF k > Len(idx) THEN <<0, 0, 0>>
    ELSE LET rest == SumFaceNormals(idx, normals, i, k + 1)
         IN  IF i \in {idx[k][1], idx[k][2], idx[k][3]} THEN Add(normals[k], rest)
             ELSE rest

\* per vertex, the normalized sum of the normals of its triangles
calculateFaceNormalsForVertices(geometry) ==
    The({ LET normals == [k \in 1..Len(g.idx) |-> FaceNormal(g, g.idx[k])]
          IN  [i \in DOMAIN g.pos |-> Normalize(SumFaceNormals(g.idx, normals, i, 1))]
          : g \in {geometry} })

\* a position whose distance from the axis is below the minimum is rescaled
\* horizontally to the minimum.  For a position on the axis the source
\* computes 0 * Infinity and stores NaN; the model has no NaN and leaves such
\* a position where it is (see OnAxis)
ClampRadius(p) ==
    IF p[1] = 0 /\ p[3] = 0 THEN p
    ELSE IF p[1] * p[1] + p[3] * p[3] < MinRadius * MinRadius
    THEN LET newRadius == Sqrt((p[1] * p[1] + p[3] * p[3]) * UnitLen * UnitLen)
         IN  << RDiv(p[1] * MinRadius * UnitLen, newRadius), p[2],
                RDiv(p[3] * MinRadius * UnitLen, newRadius) >>
    ELSE p

\* some vertex lies exactly on the revolution axis
OnAxis(g) == \E i \in DOMAIN g.pos : g.pos[i][1] = 0 /\ g.pos[i][3] = 0

\* the new position of one vertex if the cap rings were offset like the others
OffsetPositionCapsAlongNormal(p, n, displacement, isCapRing, normalType) ==
    IF normalType = "horizontal"
    THEN LET horizontalLength == Sqrt(n[1] * n[1] + n[3] * n[3])
         IN  IF horizontalLength > 1
             THEN << p[1] + RDiv(RDiv(n[1] * One, horizontalLength) * displacement, One),
                     p[2],
                     p[3] + RDiv(RDiv(n[3] * One, horizontalLength) * displacement, One) >>
             ELSE p
    ELSE << p[1] + RDiv(n[1] * displacement, One),
            p[2] + RDiv(n[2] * displacement, One),
            p[3] + RDiv(n[3] * displacement, One) >>

\* the new position of one vertex: the offset along the normal of the mode
OffsetPosition(p, n, displacement, isCapRing, normalType) ==
    IF normalType = "horizontal"
    THEN LET horizontalLength == Sqrt(n[1] * n[1] + n[3] * n[3])
         IN  IF horizontalLength > 1
             THEN << p[1] + RDiv(RDiv(n[1] * One, horizontalLength) * displacement, One),
                     p[2],
                     p[3] + RDiv(RDiv(n[3] * One, horizontalLength) * displacement, One) >>
             ELSE p
    ELSE << p[1] + RDiv(n[1] * displacement, One),
            IF isCapRing THEN p[2] ELSE p[2] + RDiv(n[2] * displacement, One),
            p[3] + RDiv(n[3] * displacement, One) >>

\* the main loop of applyDisplacementToGeometry
DisplaceVertices(geometry, image, scale, bias, useVertexNormals, params) ==
    The({ The({ [g EXCEPT !.pos =
                  [i \in DOMAIN g.pos |->
                      LET ring == RingOf(i, params.segments)
                          numRings == Count(g) \div (params.segments + 1)
                          n    == IF useVertexNormals THEN g.nrm[i] ELSE faceNormalsMap[i]
                      IN  ClampRadius(
                              OffsetPosition(g.pos[i], n,
                                  VertexDisplacement(g, image, i, scale, bias, params),
                                  ring = 0 \/ ring = numRings - 1,
                                  params.normalType))]]
                : faceNormalsMap \in { IF useVertexNormals THEN <<>>
                                       ELSE calculateFaceNormalsForVertices(g) } })
          : g \in {geometry} })

\* what follows the main loop: the seam copy, the normals, the smoothing
FinishDisplacement(geometry, scale, params) ==
    The({ LET numRings == Count(g) \div (params.segments + 1)
              shaded   == recalculateSmoothNormals(EqualizeSeam(g, params.segments),
                                                   params.segments, numRings)
          IN  IF Abs(scale) > 1 /\ SmoothingIntensity > 0
              THEN ensureNormalsPointOutward(
                       recalculateSmoothNormals(
                           smoothDisplacedGeometry(shaded, params.segments, numRings,
                                                   SmoothingIntensity),
                           params.segments, numRings))
              ELSE shaded
          : g \in {geometry} })

\* an applyDisplacementToGeometry without the test of texture.image: it reads
\* the pixels of an image that is not there yet as if they were decoded
applyDisplacementToGeometryUnguarded(g, texture, scale, bias, useVertexNormals, params) ==
    IF texture = "null" THEN g
    ELSE FinishDisplacement(
             DisplaceVertices(ensureNormalsPointOutward(g), ImageOf(texture),
                              scale, bias, useVertexNormals, params),
             scale, params)

\* what a call of applyDisplacementToGeometry writes to the console and what
\* leaves it as an exception: the body after the null test is one try block
\* whose catch logs the error, so nothing is thrown to the caller
DisplacementConsole(texture) ==
    [warn   |-> IF texture = "undecoded"
                THEN << "Texture image not loaded yet, skipping displacement" >>
                ELSE <<>>,
     thrown |-> "none"]

applyDisplacementToGeometry(g, texture, scale, bias, useVertexNormals, params) ==
    IF texture = "null" THEN g
    ELSE IF texture = "undecoded" THEN ensureNormalsPointOutward(g)
    ELSE FinishDisplacement(
             DisplaceVertices(ensureNormalsPointOutward(g), ImageOf(texture),
                              scale, bias, useVertexNormals, params),
             scale, params)

-----------------------------------------------------------------------------
(* Cap welder *)

\* a cap welder that regenerates the ring from the undisplaced bottom ring
getDisplacedRingVerticesOfBottom(g, ringIndex, segments) ==
    [seg \in 0..segments |-> g.pos[VertexIndex(0, seg, segments)]]

getDisplacedRingVertices(g, ringIndex, segments) ==
    [seg \in 0..segments |-> g.pos[VertexIndex(ringIndex, seg, segments)]]

RECURSIVE SumCoord(_, _, _)
SumCoord(ringVertices, c, n) ==
    IF n = 0 THEN 0 ELSE ringVertices[n - 1][c] + SumCoord(ringVertices, c, n - 1)

\* one cap: vertex 0 the mean of the first `segments` ring vertices, vertices
\* 1..segments+1 the ring vertices; the fan is wound by `bottom`
\* one cap whose fan is wound the same way at both ends
CapGeometryOneWinding(ringVertices, segments, bottom) ==
    LET center == << RDiv(SumCoord(ringVertices, 1, segments), segments),
                     RDiv(SumCoord(ringVertices, 2, segments), segments),
                     RDiv(SumCoord(ringVertices, 3, segments), segments) >>
    IN  [pos |-> [k \in 0..(segments + 1) |->
                    IF k = 0 THEN center ELSE ringVertices[k - 1]],
         nrm |-> [k \in 0..(segments + 1) |->
                    IF bottom THEN <<0, -One, 0>> ELSE <<0, One, 0>>],
         uv  |-> [k \in 0..(segments + 1) |-> << UvOne \div 2, UvOne \div 2 >>],
         idx |-> [seg \in 1..segments |-> <<0, seg, seg + 1>>]]

CapGeometry(ringVertices, segments, bottom) ==
    LET center == << RDiv(SumCoord(ringVertices, 1, segments), segments),
                     RDiv(SumCoord(ringVertices, 2, segments), segments),
                     RDiv(SumCoord(ringVertices, 3, segments), segments) >>
    IN  [pos |-> [k \in 0..(segments + 1) |->
                    IF k = 0 THEN center ELSE ringVertices[k - 1]],
         nrm |-> [k \in 0..(segments + 1) |->
                    IF bottom THEN <<0, -One, 0>> ELSE <<0, One, 0>>],
         uv  |-> [k \in 0..(segments + 1) |->
                    IF k = 0 THEN << UvOne \div 2, UvOne \div 2 >>
                    ELSE << RDiv(UvOne * (One + CosQ(k - 1, segments)), 2 * One),
                            RDiv(UvOne * (One + SinQ(k - 1, segments)), 2 * One) >>],
         idx |-> [seg \in 1..segments |->
                    IF bottom THEN <<0, seg + 1, seg>> ELSE <<0, seg, seg + 1>>]]

createWeldedCapGeometries(cylinderGeometry, params) ==
    The({ [bottom |-> CapGeometry(getDisplacedRingVertices(g, 0, params.segments),
                                  params.segments, TRUE),
           top    |-> CapGeometry(getDisplacedRingVertices(g, params.rings - 1,
                                                           params.segments),
                                  params.segments, FALSE)]
          : g \in {cylinderGeometry} })

-----------------------------------------------------------------------------
(* The rebuild.  enableSmoothing is true and is not exposed in the UI.       *)

\* updateLoftGeometry up to the geometry-smoothing block
SmoothedBody(params, anchors) ==
    The({ LET rings == Count(g0) \div (params.segments + 1)
          IN  IF GeometrySmoothing > 0
              THEN ensureNormalsPointOutward(
                       recalculateSmoothNormals(
                           smoothDisplacedGeometry(g0, params.segments, rings,
                                                   GeometrySmoothing),
                           params.segments, rings))
              ELSE g0
          : g0 \in {ensureNormalsPointOutward(createLoftGeometry(params, anchors))} })

\* the body geometry that updateLoftGeometry hands to the new loftMesh
BodyGeometry(params, anchors, texture) ==
    LET g == SmoothedBody(params, anchors)
    IN  IF texture # "null" /\ (params.displacementScale # 0 \/ params.displacementBias # 0)
        THEN applyDisplacementToGeometry(g, texture, params.displacementScale,
                                         params.displacementBias,
                                         params.normalType # "face", params)
        ELSE g

createWatertightCaps(mesh, params) == createWeldedCapGeometries(mesh, params)

\* the whole rebuild: the new body mesh and the caps welded to it
updateLoftGeometry(params, anchors, texture) ==
    The({ [loftMesh |-> mesh, capMeshes |-> createWatertightCaps(mesh, params)]
          : mesh \in {BodyGeometry(params, anchors, texture)} })

-----------------------------------------------------------------------------
(* Values shared by the specifications *)

NoGeometry == [pos |-> <<>>, nrm |-> <<>>, uv |-> <<>>, idx |-> <<>>]

NoCaps == [bottom |-> NoGeometry, top |-> NoGeometry]

NoDrag == [dragObject |-> "null",
           displacementDisabledForDrag |-> FALSE,
           temporaryDisplacementScale |-> 0,
           temporaryDisplacementBias |-> 0]

\* an object handed to exportMesh: a Mesh or a Group, its children naming the
\* geometries they share with their originals
NoCall == [kind |-> "none", children |-> <<>>, format |-> "none", filename |-> "",
           scale |-> 0, swapYZ |-> FALSE]

NoExport == [call |-> NoCall, files |-> <<>>, alerts |-> <<>>, thrown |-> "none",
             exportObject |-> <<>>]

\* the page once main.ts has run and init has returned with the editor set up
LoadedPage ==
    [readyState |-> "complete", webgl |-> TRUE, evaluated |-> TRUE,
     domListener |-> FALSE, initRoutes |-> <<"immediate">>, initReturned |-> TRUE,
     loftEditor |-> TRUE, unloads |-> 0, disposeCalls |-> 0, logged |-> 0,
     escaped |-> FALSE]

\* the profile after every anchor has been dragged to radius x
DraggedTo(anchors, x) ==
    [i \in DOMAIN anchors |-> [anchors[i] EXCEPT !.position = <<x, anchors[i].position[2]>>]]

ThinAnchors == DraggedTo(InitAnchors, 2 * MinRadius)

\* the falloff settings of the model: off, the defaults, and wide zones
FalloffSettings ==
    { [falloffEnabled |-> FALSE, falloffTop |-> 20, falloffBottom |-> 20],
      [falloffEnabled |-> TRUE,  falloffTop |-> 20, falloffBottom |-> 20],
      [falloffEnabled |-> TRUE,  falloffTop |-> 50, falloffBottom |-> 45] }

\* displacement (scale, bias) pairs of the model; (50, -10) is the default
DisplacementSettings == { <<50, -10>>, <<-10, 0>>, <<0, -10>> }

ParamsOf(rings, segments, rotation, disp, normalType, falloff) ==
    [rings |-> rings, segments |-> segments,
     textureRotation |-> rotation, textureRepeatU |-> 10, textureRepeatV |-> 10,
     displacementScale |-> disp[1], displacementBias |-> disp[2],
     normalType |-> normalType,
     falloffEnabled |-> falloff.falloffEnabled, falloffTop |-> falloff.falloffTop,
     falloffBottom |-> falloff.falloffBottom, falloffPower |-> 20,
     exportScale |-> DefaultExportScale]

DisplacementApplies(params, texture) ==
    texture # "null" /\ (params.displacementScale # 0 \/ params.displacementBias # 0)

-----------------------------------------------------------------------------
(* SpecRebuild: one run of updateLoftGeometry, statement by statement, from   *)
(* every combination of parameters, profile and texture of the model.         *)

\* the cylinder: two anchors at heights 0 and 5, both of radius 2 and without
\* handles, 10 rings, 16 segments, no texture and no displacement
CylinderScenario ==
    [params  |-> ParamsOf(10, 16, 0, <<0, 0>>, "horizontal",
                          [falloffEnabled |-> TRUE, falloffTop |-> 20,
                           falloffBottom |-> 20]),
     anchors |-> << Anchor(DefaultRadius, 0, <<0, 0>>, <<0, 0>>, FALSE),
                    Anchor(DefaultRadius, TotalHeight, <<0, 0>>, <<0, 0>>, FALSE) >>,
     texture |-> "null"]

InitRebuild ==
    /\ \/ /\ loftParams \in { ParamsOf(r, s, rot, d, n, f) :
                                r \in MinRings..MaxRings, s \in MinSegments..MaxSegments,
                                rot \in {0, FullTurn}, d \in DisplacementSettings,
                                n \in {"vertex", "face", "horizontal"},
                                f \in FalloffSettings }
          /\ loftBezierAnchors \in {InitAnchors, ThinAnchors}
          /\ currentTexture \in {"null", "undecoded", "white", "checker"}
       \/ /\ loftParams = CylinderScenario.params
          /\ loftBezierAnchors = CylinderScenario.anchors
          /\ currentTexture = CylinderScenario.texture
    /\ loftMesh = NoGeometry
    /\ capMeshes = NoCaps
    /\ pc = "create"
    /\ pass = 0
    /\ dispLog = <<>>
    /\ selectedAnchorIndex = -1
    /\ selectedHandle = "null"
    /\ isDragging = FALSE
    /\ dragCtl = NoDrag
    /\ falloffHeight = 0
    /\ falloffMultiplier = One
    /\ exportOut = NoExport
    /\ pendingLoads = <<>>
    /\ page = LoadedPage
    /\ events = 0

\* lines 751-755 if the grid were not made anew: the run starts from the
\* geometry of the mesh that is live
CreateGridOnLiveMesh ==
    /\ pc = "create"
    /\ loftMesh' = IF loftMesh = NoGeometry
                   THEN ensureNormalsPointOutward(
                            createLoftGeometry(loftParams, loftBezierAnchors))
                   ELSE ensureNormalsPointOutward(loftMesh)
    /\ pc' = "geometrySmoothing"
    /\ pass' = 0
    /\ UNCHANGED <<loftParams, loftBezierAnchors, currentTexture, capMeshes, dispLog,
                   dragVars, callVars, events>>

\* lines 751-755: the lathe grid with its normals turned outward
CreateGrid ==
    /\ pc = "create"
    /\ loftMesh' = ensureNormalsPointOutward(createLoftGeometry(loftParams, loftBezierAnchors))
    /\ pc' = "geometrySmoothing"
    /\ pass' = 0
    /\ UNCHANGED <<loftParams, loftBezierAnchors, currentTexture, capMeshes, dispLog,
                   dragVars, callVars, events>>

\* one iteration of the pass loop of smoothDisplacedGeometry
SmoothingPass(phase, passes) ==
    /\ pc = phase
    /\ pass < passes
    /\ loftMesh' = SmoothPass(loftMesh, loftParams.segments, loftParams.rings)
    /\ pass' = pass + 1
    /\ UNCHANGED <<loftParams, loftBezierAnchors, currentTexture, capMeshes, pc, dispLog,
                   dragVars, callVars, events>>

\* the end of smoothDisplacedGeometry and what the caller does with the normals
SmoothingReturn(phase, passes, next) ==
    /\ pc = phase
    /\ pass = passes
    /\ loftMesh' = ensureNormalsPointOutward(
                       recalculateSmoothNormals(
                           EqualizeSeam(loftMesh, loftParams.segments),
                           loftParams.segments, loftParams.rings))
    /\ pc' = next
    /\ pass' = 0
    /\ UNCHANGED <<loftParams, loftBezierAnchors, currentTexture, capMeshes, dispLog,
                   dragVars, callVars, events>>

GeometrySmoothingPass == SmoothingPass("geometrySmoothing", GeometrySmoothing)

GeometrySmoothingReturn ==
    SmoothingReturn("geometrySmoothing", GeometrySmoothing,
                    IF DisplacementApplies(loftParams, currentTexture)
                    THEN "displace" ELSE "caps")

\* applyDisplacementToGeometry up to its smoothing block
Displace ==
    /\ pc = "displace"
    /\ IF currentTexture = "undecoded"
       THEN /\ loftMesh' = ensureNormalsPointOutward(loftMesh)
            /\ dispLog' = <<>>
            /\ pc' = "caps"
       ELSE LET g == DisplaceVertices(ensureNormalsPointOutward(loftMesh),
                                      ImageOf(currentTexture),
                                      loftParams.displacementScale,
                                      loftParams.displacementBias,
                                      loftParams.normalType # "face", loftParams)
            IN  IF OnAxis(g)
                THEN \* the source has stored NaN; the model follows this run no further
                     /\ loftMesh' = loftMesh
                     /\ dispLog' = <<>>
                     /\ pc' = "nan"
                ELSE /\ loftMesh' = recalculateSmoothNormals(
                                        EqualizeSeam(g, loftParams.segments),
                                        loftParams.segments, loftParams.rings)
                     /\ dispLog' = [i \in DOMAIN loftMesh.pos |->
                                      VertexDisplacement(loftMesh, ImageOf(currentTexture), i,
                                                         loftParams.displacementScale,
                                                         loftParams.displacementBias,
                                                         loftParams)]
                     /\ pc' = IF Abs(loftParams.displacementScale) > 1
                                  /\ SmoothingIntensity > 0
                              THEN "displacementSmoothing" ELSE "caps"
    /\ pass' = 0
    /\ UNCHANGED <<loftParams, loftBezierAnchors, currentTexture, capMeshes,
                   dragVars, callVars, events>>

DisplacementSmoothingPass == SmoothingPass("displacementSmoothing", SmoothingIntensity)

DisplacementSmoothingReturn ==
    SmoothingReturn("displacementSmoothing", SmoothingIntensity, "caps")

\* lines 789-794: the new loftMesh is in place, the caps are welded to it
WeldCaps ==
    /\ pc = "caps"
    /\ capMeshes' = createWatertightCaps(loftMesh, loftParams)
    /\ pc' = "done"
    /\ UNCHANGED <<loftParams, loftBezierAnchors, currentTexture, loftMesh, pass, dispLog,
                   dragVars, callVars, events>>

NextRebuild ==
    \/ CreateGrid
    \/ GeometrySmoothingPass
    \/ GeometrySmoothingReturn
    \/ Displace
    \/ DisplacementSmoothingPass
    \/ DisplacementSmoothingReturn
    \/ WeldCaps

SpecRebuild == InitRebuild /\ [][NextRebuild]_vars

\* the statement-by-statement run ends in the result of the whole rebuild
StepwiseAgrees ==
    pc = "done" =>
        [loftMesh |-> loftMesh, capMeshes |-> capMeshes]
            = updateLoftGeometry(loftParams, loftBezierAnchors, currentTexture)

-----------------------------------------------------------------------------
(* Properties of one rebuild (SpecRebuild) *)

\* column `segments` of every ring holds the position of column 0
SeamClosed(g, segments) ==
    \A i \in DOMAIN g.pos :
        SegOf(i, segments) = segments => g.pos[i] = g.pos[i - segments]

\* applyDisplacementToGeometry has run and has returned
DisplacementFinished ==
    pc \in {"caps", "done"} /\ DisplacementApplies(loftParams, currentTexture)

RadialSq(p) == p[1] * p[1] + p[3] * p[3]

\* C2: once applyDisplacementToGeometry has displaced the grid and returned,
\* every body vertex is at least minRadius from the axis (up to one grid unit
\* of rounding).
C2_MinimumRadius ==
    (DisplacementFinished /\ currentTexture # "undecoded")
        => \A i \in DOMAIN loftMesh.pos :
              RadialSq(loftMesh.pos[i]) >= (MinRadius - 1) * (MinRadius - 1)

\* boundary vertex k of each cap is at the position of column k of its body ring
Welded(g, caps, params) ==
    \A k \in 0..params.segments :
        /\ caps.bottom.pos[k + 1] = g.pos[VertexIndex(0, k, params.segments)]
        /\ caps.top.pos[k + 1] = g.pos[VertexIndex(params.rings - 1, k, params.segments)]

\* the body vertex that stands for body vertex i: the seam duplicate of a ring
\* is its column 0
BodyVertex(i, segments) ==
    VertexIndex(RingOf(i, segments), SegOf(i, segments) % segments, segments)

\* the vertex that stands for vertex k of a cap: a boundary vertex is its body
\* partner, the centre is a vertex of its own
CapVertex(k, ring, segments, center) ==
    IF k = 0 THEN center ELSE VertexIndex(ring, (k - 1) % segments, segments)

\* all triangles of the solid over the identified vertices: body, bottom fan
\* (centre -1), top fan (centre -2)
SolidTriangles(g, caps, params) ==
    LET segments == params.segments
        body   == [k \in 1..Len(g.idx) |->
                     << BodyVertex(g.idx[k][1], segments),
                        BodyVertex(g.idx[k][2], segments),
                        BodyVertex(g.idx[k][3], segments) >>]
        fan(cap, ring, center) ==
                  [k \in 1..Len(cap.idx) |->
                     << CapVertex(cap.idx[k][1], ring, segments, center),
                        CapVertex(cap.idx[k][2], ring, segments, center),
                        CapVertex(cap.idx[k][3], ring, segments, center) >>]
    IN  body \o fan(caps.bottom, 0, -1) \o fan(caps.top, params.rings - 1, -2)

DirectedEdges(tris) ==
    { << tris[k][j], tris[k][(j % 3) + 1] >> : k \in 1..Len(tris), j \in 1..3 }

\* no directed edge is used twice and every directed edge has its reverse:
\* every edge is shared by exactly two triangles that traverse it oppositely
ClosedOriented(tris) ==
    LET edges == DirectedEdges(tris)
    IN  /\ Cardinality(edges) = 3 * Len(tris)
        /\ \A e \in edges : e[1] # e[2] /\ << e[2], e[1] >> \in edges

\* C4: after a rebuild the seam duplicates and the cap boundary copies sit at
\* the positions of their body partners, and over the vertices so identified
\* every edge of body and cap fans is shared by exactly two triangles that
\* traverse it in opposite directions.
C4_Watertight ==
    pc = "done" =>
        /\ SeamClosed(loftMesh, loftParams.segments)
        /\ Welded(loftMesh, capMeshes, loftParams)
        /\ ClosedOriented(SolidTriangles(loftMesh, capMeshes, loftParams))

\* a finished rebuild of a displaced grid with the largest ring and segment
\* counts of the model
C4_Witness ==
    /\ pc = "done"
    /\ loftParams.rings = MaxRings
    /\ loftParams.segments = MaxSegments
    /\ dispLog # <<>>
    /\ Len(SolidTriangles(loftMesh, capMeshes, loftParams))
          = 2 * (MaxRings - 1) * MaxSegments + 2 * MaxSegments

\* the displacement the claim expects at vertex i: the image value at the
\* vertex's own (u, v), times scale plus bias, times the falloff once
ExpectedDisplacement(g, image, i, params) ==
    RDiv(RawDisplacement(image, g.uv[i][1], g.uv[i][2], params.displacementScale,
                         params.displacementBias, params)
           * calculateDisplacementFalloff(g.uv[i][2], params), One)

\* C5: the scalar offset of every vertex, seam columns included, is
\* (sample * scale + bias) * falloff(v) for the image value at the vertex's own
\* (u, v).
C5_DisplacementAmount ==
    dispLog # <<>> =>
        \A i \in DOMAIN dispLog :
            dispLog[i] = ExpectedDisplacement(loftMesh, ImageOf(currentTexture), i, loftParams)

\* C13: applyDisplacementToGeometry called with a texture whose image is not
\* available yet returns without moving a vertex and without throwing, and
\* logs a warning; called with a null texture it returns the geometry as it
\* was.  Checked on every body the rebuild hands to it, and on the step the
\* rebuild takes with an undecoded texture.
C13_UndecodedTextureSkipped ==
    /\ [](pc = "displace" =>
            LET call(texture) ==
                    applyDisplacementToGeometry(loftMesh, texture,
                                                loftParams.displacementScale,
                                                loftParams.displacementBias,
                                                loftParams.normalType # "face", loftParams)
            IN  /\ call("undecoded").pos = loftMesh.pos
                /\ call("undecoded").idx = loftMesh.idx
                /\ DisplacementConsole("undecoded").warn # <<>>
                /\ DisplacementConsole("undecoded").thrown = "none"
                /\ call("null") = loftMesh
                /\ DisplacementConsole("null") = [warn |-> <<>>, thrown |-> "none"])
    /\ [][(pc = "displace" /\ currentTexture = "undecoded")
             => (loftMesh'.pos = loftMesh.pos /\ pc' = "caps")]_vars

\* the rebuild has called applyDisplacementToGeometry with an undecoded texture
\* and a displacement that a decoded image would have applied
C13_Witness ==
    /\ pc = "caps"
    /\ currentTexture = "undecoded"
    /\ DisplacementApplies(loftParams, currentTexture)
    /\ loftParams.displacementScale # 0
    /\ loftMesh.pos = SmoothedBody(loftParams, loftBezierAnchors).pos
    /\ loftMesh.pos # BodyGeometry(loftParams, loftBezierAnchors, "checker").pos

\* the y component of the right-hand-rule normal (p2 - p1) x (p3 - p1) of the
\* triangle `tri` of the geometry, taken in its index order
WindingNormalY(geometry, tri) ==
    LET a == Sub(geometry.pos[tri[2]], geometry.pos[tri[1]])
        b == Sub(geometry.pos[tri[3]], geometry.pos[tri[1]])
    IN  a[3] * b[1] - a[1] * b[3]

\* C19: every fan triangle of the bottom cap is wound so that its
\* right-hand-rule normal points in -Y and every fan triangle of the top cap
\* so that it points in +Y, in agreement with the caps' normal attributes
\* (0, -1, 0) and (0, +1, 0).
C19_CapsWoundOutward ==
    pc = "done" =>
        /\ \A t \in DOMAIN capMeshes.bottom.idx :
              /\ WindingNormalY(capMeshes.bottom, capMeshes.bottom.idx[t]) < 0
              /\ capMeshes.bottom.nrm[capMeshes.bottom.idx[t][1]] = << 0, -One, 0 >>
        /\ \A t \in DOMAIN capMeshes.top.idx :
              /\ WindingNormalY(capMeshes.top, capMeshes.top.idx[t]) > 0
              /\ capMeshes.top.nrm[capMeshes.top.idx[t][1]] = << 0, One, 0 >>

\* the rebuild of the cylinder scenario has finished
CylinderRebuilt ==
    /\ pc = "done"
    /\ loftParams = CylinderScenario.params
    /\ loftBezierAnchors = CylinderScenario.anchors
    /\ currentTexture = CylinderScenario.texture

\* C20: in the rebuilt mesh of the cylinder scenario every vertex of every
\* ring lies at radial distance 2.0 from the axis (within one grid unit, the
\* rounding of the positions).
C20_CylinderRadius ==
    CylinderRebuilt =>
        \A i \in DOMAIN loftMesh.pos :
            /\ RadialSq(loftMesh.pos[i]) >= (DefaultRadius - 1) * (DefaultRadius - 1)
            /\ RadialSq(loftMesh.pos[i]) <= (DefaultRadius + 1) * (DefaultRadius + 1)

-----------------------------------------------------------------------------
(* Spec: the editor after initLoftEditor, driven by UI events.  Every action  *)
(* is one event handler, run to completion.                                   *)

\* the values a control of the GUI delivers in the model
ScaleValues == {0, 50, 200}
BiasValues == {-10, 0}
RepeatValues == {10, 20}
RotationValues == {0, FullTurn}
FalloffZoneValues == {20, 50}
FalloffPowerValues == {20, 5}
\* where the pointer ray meets the drag plane
DragPoints == { <<150, 200>>, <<5, 600>>, <<150, -50>> }
\* where on a Bezier segment a double click lands, as t * TDen: the 10th and
\* the 15th of the 20 chords that updateLoftCurveLine draws per segment
ClickParameters == { TDen \div 2, 3 * (TDen \div 4) }

DefaultParams ==
    ParamsOf(MinRings, MinSegments, 0, <<50, -10>>, "horizontal",
             [falloffEnabled |-> TRUE, falloffTop |-> 20, falloffBottom |-> 20])

Scene == [loftMesh |-> loftMesh, capMeshes |-> capMeshes]

\* the handler has replaced the live meshes by those of `scene`
Show(scene) ==
    /\ loftMesh' = scene.loftMesh
    /\ capMeshes' = scene.capMeshes

Init ==
    /\ loftParams = DefaultParams
    /\ loftBezierAnchors = InitAnchors
    /\ currentTexture = "null"
    /\ loftMesh = updateLoftGeometry(DefaultParams, InitAnchors, "null").loftMesh
    /\ capMeshes = updateLoftGeometry(DefaultParams, InitAnchors, "null").capMeshes
    /\ selectedAnchorIndex = -1
    /\ selectedHandle = "null"
    /\ isDragging = FALSE
    /\ dragCtl = NoDrag
    /\ pc = "done"
    /\ pass = 0
    /\ dispLog = <<>>
    /\ falloffHeight = 0
    /\ falloffMultiplier = One
    /\ exportOut = NoExport
    /\ pendingLoads = <<>>
    /\ page = LoadedPage
    /\ events = 0

\* an event is handled: the budget of the model
Event ==
    /\ events < (IF pc = "profile" THEN MaxEdits ELSE MaxEvents)
    /\ events' = events + 1
    /\ UNCHANGED <<stepVars, callVars>>

\* a slider or list whose onChange handler is updateLoftGeometry
\* (rings, segments, textureRotation)
SetAndRebuild(params) ==
    /\ params # loftParams
    /\ loftParams' = params
    /\ Show(updateLoftGeometry(params, loftBezierAnchors, currentTexture))
    /\ UNCHANGED <<loftBezierAnchors, currentTexture, dragVars>>

SetRings ==
    \E v \in MinRings..MaxRings :
        Event /\ SetAndRebuild([loftParams EXCEPT !.rings = v])

SetSegments ==
    \E v \in MinSegments..MaxSegments :
        Event /\ SetAndRebuild([loftParams EXCEPT !.segments = v])

SetTextureRotation ==
    \E v \in RotationValues :
        Event /\ SetAndRebuild([loftParams EXCEPT !.textureRotation = v])

\* the Normal Type list: rebuilds only with a texture and a displacement
normalTypeChanged(params, anchors, texture, scene) ==
    IF DisplacementApplies(params, texture)
    THEN updateLoftGeometry(params, anchors, texture)
    ELSE scene

SetNormalType ==
    \E v \in {"vertex", "face", "horizontal"} :
        /\ Event
        /\ v # loftParams.normalType
        /\ loftParams' = [loftParams EXCEPT !.normalType = v]
        /\ Show(normalTypeChanged(loftParams', loftBezierAnchors, currentTexture, Scene))
        /\ UNCHANGED <<loftBezierAnchors, currentTexture, dragVars>>

\* applyTextureToLoft: rebuilds only if a displacement is set
\* an applyTextureToLoft that only swaps the material
applyTextureToLoftMaterialOnly(texture, params, anchors, scene) == scene

applyTextureToLoft(texture, params, anchors, scene) ==
    IF params.displacementScale # 0 \/ params.displacementBias # 0
    THEN updateLoftGeometry(params, anchors, texture)
    ELSE scene

\* the Load Image button, once the file has been read and decoded
LoadTexture ==
    \E texture \in {"white", "checker"} :
        /\ Event
        /\ currentTexture' = texture
        /\ Show(applyTextureToLoft(texture, loftParams, loftBezierAnchors, Scene))
        /\ UNCHANGED <<loftParams, loftBezierAnchors, dragVars>>

\* the Remove Texture button
RemoveTexture ==
    /\ Event
    /\ currentTexture' = "null"
    /\ loftParams' = [loftParams EXCEPT !.displacementScale = 0, !.displacementBias = 0]
    /\ Show(updateLoftGeometry(loftParams', loftBezierAnchors, "null"))
    /\ UNCHANGED <<loftBezierAnchors, dragVars>>

\* updateTextureRepeat: rebuilds if there is a texture
updateTextureRepeat(params, anchors, texture, scene) ==
    IF texture # "null" THEN updateLoftGeometry(params, anchors, texture) ELSE scene

SetTextureRepeat ==
    \E v \in RepeatValues, field \in {"textureRepeatU", "textureRepeatV"} :
        /\ Event
        /\ v # loftParams[field]
        /\ loftParams' = [loftParams EXCEPT ![field] = v]
        /\ Show(updateTextureRepeat(loftParams', loftBezierAnchors, currentTexture, Scene))
        /\ UNCHANGED <<loftBezierAnchors, currentTexture, dragVars>>

\* updateDisplacement: clamps scale to [-2, 2] and bias to [-1, 1], rebuilds
ClampedDisplacement(params) ==
    [params EXCEPT !.displacementScale = Max(-2 * UnitLen, Min(2 * UnitLen, @)),
                   !.displacementBias = Max(-UnitLen, Min(UnitLen, @))]

updateDisplacement(params) ==
    /\ loftParams' = ClampedDisplacement(params)
    /\ Show(updateLoftGeometry(loftParams', loftBezierAnchors, currentTexture))
    /\ UNCHANGED <<loftBezierAnchors, currentTexture, dragVars>>

SetDisplacementScale ==
    \E v \in ScaleValues :
        /\ Event
        /\ v # loftParams.displacementScale
        /\ updateDisplacement([loftParams EXCEPT !.displacementScale = v])

SetDisplacementBias ==
    \E v \in BiasValues :
        /\ Event
        /\ v # loftParams.displacementBias
        /\ updateDisplacement([loftParams EXCEPT !.displacementBias = v])

SetFalloffEnabled ==
    /\ Event
    /\ updateDisplacement([loftParams EXCEPT !.falloffEnabled = ~@])

\* the two zone sliders keep falloffTop + falloffBottom <= 0.95
SetFalloffTop ==
    \E v \in FalloffZoneValues :
        /\ Event
        /\ v # loftParams.falloffTop
        /\ updateDisplacement(
              [loftParams EXCEPT !.falloffTop =
                  IF v + loftParams.falloffBottom > 95 THEN 95 - loftParams.falloffBottom
                  ELSE v])

\* a Bottom Falloff slider whose handler takes the value as it comes
SetFalloffBottomAsSet ==
    \E v \in FalloffZoneValues :
        /\ Event
        /\ v # loftParams.falloffBottom
        /\ updateDisplacement([loftParams EXCEPT !.falloffBottom = v])

SetFalloffBottom ==
    \E v \in FalloffZoneValues :
        /\ Event
        /\ v # loftParams.falloffBottom
        /\ updateDisplacement(
              [loftParams EXCEPT !.falloffBottom =
                  IF loftParams.falloffTop + v > 95 THEN 95 - loftParams.falloffTop
                  ELSE v])

SetFalloffPower ==
    \E v \in FalloffPowerValues :
        /\ Event
        /\ v # loftParams.falloffPower
        /\ updateDisplacement([loftParams EXCEPT !.falloffPower = v])

\* the anchors a pointer event of the model can hit (indices from 0): the
\* first, an interior one, the last
AnchorPicks(anchors) == {0, 1, Len(anchors) - 1}

\* displacementScale *= 0.3 and displacementBias *= 0.3
ReducedForDrag(params) ==
    [params EXCEPT !.displacementScale = RDiv(@ * 3, 10),
                   !.displacementBias = RDiv(@ * 3, 10)]

\* pointerdown on an anchor: selects it, starts the drag and, unless already
\* done, saves and reduces the displacement and rebuilds
PointerDownAnchor ==
    \E i \in AnchorPicks(loftBezierAnchors) :
        /\ Event
        /\ selectedAnchorIndex' = i
        /\ selectedHandle' = "null"
        /\ isDragging' = TRUE
        /\ IF /\ ~dragCtl.displacementDisabledForDrag
              /\ (loftParams.displacementScale # 0 \/ loftParams.displacementBias # 0)
           THEN /\ dragCtl' = [dragObject |-> "anchor",
                               displacementDisabledForDrag |-> TRUE,
                               temporaryDisplacementScale |-> loftParams.displacementScale,
                               temporaryDisplacementBias |-> loftParams.displacementBias]
                /\ loftParams' = ReducedForDrag(loftParams)
                /\ Show(updateLoftGeometry(loftParams', loftBezierAnchors, currentTexture))
           ELSE /\ dragCtl' = [dragCtl EXCEPT !.dragObject = "anchor"]
                /\ UNCHANGED <<loftParams, loftMesh, capMeshes>>
        /\ UNCHANGED <<loftBezierAnchors, currentTexture>>

\* pointerdown on a handle of the selected anchor (only its handles are visible)
PointerDownHandle ==
    \E h \in {"in", "out"} :
        /\ Event
        /\ selectedAnchorIndex # -1
        /\ selectedHandle' = h
        /\ isDragging' = TRUE
        /\ dragCtl' = [dragCtl EXCEPT !.dragObject = h]
        /\ UNCHANGED <<loftParams, loftBezierAnchors, currentTexture, loftMesh, capMeshes,
                       selectedAnchorIndex>>

\* pointerdown on nothing: deselects, unless a drag is still in progress
PointerDownEmpty ==
    /\ Event
    /\ IF isDragging /\ dragCtl.dragObject # "null"
       THEN UNCHANGED <<selectedAnchorIndex, selectedHandle>>
       ELSE selectedAnchorIndex' = -1 /\ selectedHandle' = "null"
    /\ UNCHANGED <<loftParams, loftBezierAnchors, currentTexture, loftMesh, capMeshes,
                   isDragging, dragCtl>>

\* the anchor list after pointermove has moved the selected anchor or handle to
\* the point `at`
DraggedAnchors(anchors, index, handle, at) ==
    LET anchor == anchors[index + 1]
        moved ==
            IF handle = "null"
            THEN [anchor EXCEPT !.position =
                    << Max(MinRadius, at[1]),
                       IF index = 0 THEN 0
                       ELSE IF index = Len(anchors) - 1 THEN TotalHeight
                       ELSE Max(0, Min(TotalHeight, at[2])) >>]
            ELSE LET h == << at[1] - anchor.position[1], at[2] - anchor.position[2] >>
                     mirror == << -h[1], -h[2] >>
                 IN  IF handle = "in"
                     THEN [anchor EXCEPT !.handleIn = h,
                                         !.handleOut = IF anchor.isSmooth THEN mirror ELSE @]
                     ELSE [anchor EXCEPT !.handleOut = h,
                                         !.handleIn = IF anchor.isSmooth THEN mirror ELSE @]
    IN  [anchors EXCEPT ![index + 1] = moved]

PointerMove ==
    \E at \in DragPoints :
        /\ Event
        /\ isDragging
        /\ selectedAnchorIndex # -1
        /\ loftBezierAnchors' =
              DraggedAnchors(loftBezierAnchors, selectedAnchorIndex, selectedHandle, at)
        /\ Show(updateLoftGeometry(loftParams, loftBezierAnchors', currentTexture))
        /\ UNCHANGED <<loftParams, currentTexture, dragVars>>

\* a pointerup that ends the drag and forgets the saved displacement
PointerUpNoRestore ==
    /\ Event
    /\ isDragging' = FALSE
    /\ dragCtl' = [dragCtl EXCEPT !.dragObject = "null",
                                   !.displacementDisabledForDrag = FALSE]
    /\ UNCHANGED <<loftParams, loftMesh, capMeshes, loftBezierAnchors, currentTexture,
                   selectedAnchorIndex, selectedHandle>>

\* pointerup: ends the drag, restores the displacement saved at pointerdown
PointerUp ==
    /\ Event
    /\ isDragging' = FALSE
    /\ IF dragCtl.displacementDisabledForDrag
       THEN /\ loftParams' =
                  [loftParams EXCEPT
                      !.displacementScale = dragCtl.temporaryDisplacementScale,
                      !.displacementBias = dragCtl.temporaryDisplacementBias]
            /\ dragCtl' = [dragCtl EXCEPT !.dragObject = "null",
                                           !.displacementDisabledForDrag = FALSE]
            /\ Show(updateLoftGeometry(loftParams', loftBezierAnchors, currentTexture))
       ELSE /\ dragCtl' = [dragCtl EXCEPT !.dragObject = "null"]
            /\ UNCHANGED <<loftParams, loftMesh, capMeshes>>
    /\ UNCHANGED <<loftBezierAnchors, currentTexture, selectedAnchorIndex, selectedHandle>>

\* a toggle that flips the flag and leaves the handles as they are
toggleLoftAnchorSmoothFlagOnly(anchors, index) ==
    [anchors EXCEPT ![index + 1] = [@ EXCEPT !.isSmooth = ~@]]

LengthSq(v) == v[1] * v[1] + v[2] * v[2]

\* toggleLoftAnchorSmooth: an anchor made smooth gets colinear handles, the
\* longer one mirrored onto the other
toggleLoftAnchorSmooth(anchors, index) ==
    LET anchor == anchors[index + 1]
        hin  == anchor.handleIn
        hout == anchor.handleOut
    IN  [anchors EXCEPT ![index + 1] =
            IF anchor.isSmooth THEN [anchor EXCEPT !.isSmooth = FALSE]
            ELSE IF LengthSq(hin) > LengthSq(hout)
            THEN [anchor EXCEPT !.isSmooth = TRUE, !.handleOut = << -hin[1], -hin[2] >>]
            ELSE [anchor EXCEPT !.isSmooth = TRUE, !.handleIn = << -hout[1], -hout[2] >>]]

DblClickAnchor ==
    \E i \in AnchorPicks(loftBezierAnchors) :
        /\ Event
        /\ loftBezierAnchors' = toggleLoftAnchorSmooth(loftBezierAnchors, i)
        /\ Show(updateLoftGeometry(loftParams, loftBezierAnchors', currentTexture))
        /\ UNCHANGED <<loftParams, currentTexture, dragVars>>

\* the index (from 0) at which a double click at height clickY inserts: before
\* the first anchor that lies above clickY, else before the last anchor
RECURSIVE InsertIndex(_, _, _)
InsertIndex(anchors, clickY, i) ==
    IF i > Len(anchors) - 1 THEN 1
    ELSE IF clickY < anchors[i + 1].position[2] THEN i
    ELSE IF i = Len(anchors) - 1 THEN i
    ELSE InsertIndex(anchors, clickY, i + 1)

InsertAnchor(anchors, clickedPoint) ==
    LET insertIndex == InsertIndex(anchors, clickedPoint[2], 0)
        newAnchor   == Anchor(Max(MinRadius, clickedPoint[1]), clickedPoint[2],
                              <<0, -DefaultHandle>>, <<0, DefaultHandle>>, TRUE)
    IN  SubSeq(anchors, 1, insertIndex) \o <<newAnchor>>
          \o SubSeq(anchors, insertIndex + 1, Len(anchors))

\* dblclick on the curve line: the clicked point lies on the first or on the
\* last Bezier segment
DblClickCurve ==
    \E k \in {1, Len(loftBezierAnchors) - 1}, t \in ClickParameters :
        /\ Event
        /\ loftBezierAnchors' =
              InsertAnchor(loftBezierAnchors,
                           BezierPoint(loftBezierAnchors[k], loftBezierAnchors[k + 1], t))
        /\ Show(updateLoftGeometry(loftParams, loftBezierAnchors', currentTexture))
        /\ UNCHANGED <<loftParams, currentTexture, dragVars>>

\* Delete or Backspace if the handler removed whichever anchor is selected
KeyDeleteAnySelected ==
    /\ Event
    /\ selectedAnchorIndex # -1
    /\ selectedAnchorIndex <= Len(loftBezierAnchors) - 1
    /\ loftBezierAnchors' =
          SubSeq(loftBezierAnchors, 1, selectedAnchorIndex)
            \o SubSeq(loftBezierAnchors, selectedAnchorIndex + 2, Len(loftBezierAnchors))
    /\ selectedAnchorIndex' = -1
    /\ Show(updateLoftGeometry(loftParams, loftBezierAnchors', currentTexture))
    /\ UNCHANGED <<loftParams, currentTexture, selectedHandle, isDragging, dragCtl>>

\* Delete or Backspace: removes the selected anchor unless it is an end anchor
KeyDelete ==
    /\ Event
    /\ selectedAnchorIndex > 0
    /\ selectedAnchorIndex < Len(loftBezierAnchors) - 1
    /\ loftBezierAnchors' =
          SubSeq(loftBezierAnchors, 1, selectedAnchorIndex)
            \o SubSeq(loftBezierAnchors, selectedAnchorIndex + 2, Len(loftBezierAnchors))
    /\ selectedAnchorIndex' = -1
    /\ Show(updateLoftGeometry(loftParams, loftBezierAnchors', currentTexture))
    /\ UNCHANGED <<loftParams, currentTexture, selectedHandle, isDragging, dragCtl>>

Next ==
    \/ SetRings
    \/ SetSegments
    \/ SetTextureRotation
    \/ SetNormalType
    \/ LoadTexture
    \/ RemoveTexture
    \/ SetTextureRepeat
    \/ SetDisplacementScale
    \/ SetDisplacementBias
    \/ SetFalloffEnabled
    \/ SetFalloffTop
    \/ SetFalloffBottom
    \/ SetFalloffPower
    \/ PointerDownAnchor
    \/ PointerDownHandle
    \/ PointerDownEmpty
    \/ PointerMove
    \/ PointerUp
    \/ DblClickAnchor
    \/ DblClickCurve
    \/ KeyDelete

Spec == Init /\ [][Next]_vars

-----------------------------------------------------------------------------
(* Properties of the editor under UI events *)

\* C3: in every state the UI can reach, boundary vertex k of the bottom cap is
\* at the position of body vertex (ring 0, column k) and boundary vertex k of
\* the top cap at that of body vertex (ring rings-1, column k), for k in
\* 0..segments, and the caps are the ones built from the current body.
C3_WeldInvariant ==
    /\ Welded(loftMesh, capMeshes, loftParams)
    /\ capMeshes = createWatertightCaps(loftMesh, loftParams)

\* the body has been displaced by a texture, its bottom ring is no longer where
\* the lathe put it, and the caps are welded to it
C3_Witness ==
    /\ events >= 1
    /\ currentTexture # "null"
    /\ \E k \in 0..loftParams.segments :
          capMeshes.bottom.pos[k + 1] #
              createLoftGeometry(loftParams, loftBezierAnchors).pos[k]
    /\ capMeshes.top.pos # capMeshes.bottom.pos
    /\ Welded(loftMesh, capMeshes, loftParams)

\* C7: after every event handler the displayed body mesh and both caps are what
\* updateLoftGeometry builds from the current parameters, anchors and texture.
C7_NoStaleMesh ==
    Scene = updateLoftGeometry(loftParams, loftBezierAnchors, currentTexture)

\* a texture is loaded, the profile has been edited, and the displayed mesh is
\* the rebuild of the edited profile, not the initial mesh
C7_Witness ==
    /\ events >= 2
    /\ currentTexture # "null"
    /\ loftBezierAnchors # InitAnchors
    /\ loftMesh # updateLoftGeometry(loftParams, InitAnchors, currentTexture).loftMesh
    /\ Scene = updateLoftGeometry(loftParams, loftBezierAnchors, currentTexture)

-----------------------------------------------------------------------------
\* the normal of vertex i does not point towards the revolution axis: its dot
\* product with the radial direction (x, z) / |(x, z)| is not negative
NormalOutward(geometry, i) ==
    LET p == geometry.pos[i]
        n == geometry.nrm[i]
    IN  RadialSq(p) > 0 => n[1] * p[1] + n[3] * p[3] >= 0

\* C24: when updateLoftGeometry has finished, every body vertex normal has a
\* non-negative dot product with the radial direction of its vertex, for every
\* displacement scale and bias, texture and normal mode.
C24_NormalsOutward ==
    pc = "done" => \A i \in DOMAIN loftMesh.pos : NormalOutward(loftMesh, i)

\* the vertices of ring 0 and of ring rings - 1
CapRingVertices ==
    { i \in DOMAIN loftMesh.pos :
        RingOf(i, loftParams.segments) \in {0, loftParams.rings - 1} }

\* ring 0 lies at height 0 and ring rings - 1 at the total height
CapRingsFlat ==
    \A i \in CapRingVertices :
        loftMesh.pos[i][2] = (IF RingOf(i, loftParams.segments) = 0 THEN 0 ELSE TotalHeight)

\* this step runs inside one of the two calls of smoothDisplacedGeometry
SmoothingStep == pc \in {"geometrySmoothing", "displacementSmoothing"}

SmoothingPassStep == SmoothingStep /\ pass' = pass + 1

\* C26: in every smoothing pass the new position of every vertex between the
\* cap rings is the weight-normalised average of positions as they were before
\* the pass (0.4 itself, 0.2 / d for each existing ring at distance d in {1, 2}
\* in its column, 0.1 for each angular neighbour, wrapping at the seam), so no
\* value written during the pass is read and the order of the visit is
\* immaterial; the cap rings stay.
C26_SnapshotSmoothing ==
    [][SmoothingPassStep =>
         \A i \in DOMAIN loftMesh.pos :
             loftMesh'.pos[i] =
                 IF i \in CapRingVertices THEN loftMesh.pos[i]
                 ELSE WeightedAverage(loftMesh, i, loftParams.segments, loftParams.rings)]_vars

\* the second pass of the smoothing that follows a displacement has run on a
\* body with two rings between the cap rings, and the body is not yet a fixed
\* point of the averaging: a pass moves vertices
C26_Witness ==
    /\ pc = "displacementSmoothing"
    /\ pass = 2
    /\ loftParams.rings = MinRings + 1
    /\ currentTexture = "checker"
    /\ \E i \in DOMAIN loftMesh.pos \ CapRingVertices :
          /\ SegOf(i, loftParams.segments) \notin {0, loftParams.segments}
          /\ loftMesh.pos[i] #
                WeightedAverage(loftMesh, i, loftParams.segments, loftParams.rings)

\* C28: whatever the Top Falloff and Bottom Falloff sliders have been set to,
\* once a handler has run (and so in every rebuild) falloffTop + falloffBottom
\* is at most 0.95 and both are in 0..0.5.
C28_FalloffZonesDisjoint ==
    /\ loftParams.falloffTop + loftParams.falloffBottom <= 95
    /\ loftParams.falloffTop \in 0..50
    /\ loftParams.falloffBottom \in 0..50

\* both sliders were set to 0.5 and the handler of the second has taken its
\* value back to 0.45; the displayed body is the rebuild with these zones
C28_Witness ==
    /\ events = 2
    /\ { loftParams.falloffTop, loftParams.falloffBottom } = {45, 50}
    /\ loftMesh = updateLoftGeometry(loftParams, loftBezierAnchors, currentTexture).loftMesh

(* SpecAgain: updateLoftGeometry called again and again with nothing changed   *)
(* in between (a pointermove that stays on its point, a handler that fires     *)
(* twice), each run followed statement by statement.                           *)

\* calls of updateLoftGeometry followed in SpecAgain
MaxRebuilds == 2

InitAgain ==
    /\ loftParams \in { ParamsOf(r, MinSegments, 0, d, n,
                                 [falloffEnabled |-> TRUE, falloffTop |-> 20,
                                  falloffBottom |-> 20]) :
                          r \in MinRings..MaxRings, d \in DisplacementSettings,
                          n \in {"vertex", "face", "horizontal"} }
    /\ loftBezierAnchors \in {InitAnchors, ThinAnchors}
    /\ currentTexture \in {"null", "undecoded", "white", "checker"}
    /\ loftMesh = NoGeometry
    /\ capMeshes = NoCaps
    /\ pc = "create"
    /\ pass = 0
    /\ dispLog = <<>>
    /\ selectedAnchorIndex = -1
    /\ selectedHandle = "null"
    /\ isDragging = FALSE
    /\ dragCtl = NoDrag
    /\ falloffHeight = 0
    /\ falloffMultiplier = One
    /\ exportOut = NoExport
    /\ pendingLoads = <<>>
    /\ page = LoadedPage
    /\ events = 0

\* the next call of updateLoftGeometry, lines 726-749: the old meshes are taken
\* out of the scene and disposed of; loftMesh and the caps keep referring to
\* them until the new ones are assigned
RebuildAgain ==
    /\ pc = "done"
    /\ events < MaxRebuilds - 1
    /\ events' = events + 1
    /\ pc' = "create"
    /\ pass' = 0
    /\ UNCHANGED <<loftParams, loftBezierAnchors, currentTexture, loftMesh, capMeshes,
                   dispLog, dragVars, callVars>>

NextAgain ==
    \/ NextRebuild
    \/ RebuildAgain

SpecAgain == InitAgain /\ [][NextAgain]_vars

\* what a rebuild reads
RebuildInputs == <<loftParams, loftBezierAnchors, currentTexture>>

\* C21: every run of updateLoftGeometry, the first and the repeated one, ends in
\* the body and caps that its parameters, anchors and texture determine, so two
\* runs in a row give identical geometry; the caps that the second run welds are
\* those the first run left; and no step of a rebuild changes a parameter, an
\* anchor or the texture.
C21_RebuildIdempotent ==
    /\ [](pc = "done" =>
            Scene = updateLoftGeometry(loftParams, loftBezierAnchors, currentTexture))
    /\ [][(pc = "caps" /\ events >= 1) => capMeshes' = capMeshes]_vars
    /\ [][RebuildInputs' = RebuildInputs]_vars

\* a second run has finished on a displaced, smoothed body
C21_Witness ==
    /\ pc = "done"
    /\ events = MaxRebuilds - 1
    /\ DisplacementApplies(loftParams, currentTexture)
    /\ currentTexture = "checker"
    /\ loftMesh.pos # createLoftGeometry(loftParams, loftBezierAnchors).pos
    /\ capMeshes # NoCaps

-----------------------------------------------------------------------------

(* SpecProfile: the profile editor.  The editor as initLoftEditor leaves it,   *)
(* with or without a texture loaded, under the pointer, double-click and key   *)
(* events of initLoftBezierInteractions, each handler run to completion.       *)

\* the editor before the first pointer event: the defaults with a texture
\* loaded, or no texture and the displacement sliders moved
ProfileStarts ==
    { [texture |-> "checker", params |-> DefaultParams],
      [texture |-> "null",
       params |-> [DefaultParams EXCEPT !.displacementScale = 200,
                                        !.displacementBias = 0]] }

InitProfile ==
    /\ \E start \in ProfileStarts :
          /\ loftParams = start.params
          /\ currentTexture = start.texture
    /\ loftBezierAnchors = InitAnchors
    /\ loftMesh = updateLoftGeometry(loftParams, loftBezierAnchors, currentTexture).loftMesh
    /\ capMeshes = updateLoftGeometry(loftParams, loftBezierAnchors, currentTexture).capMeshes
    /\ selectedAnchorIndex = -1
    /\ selectedHandle = "null"
    /\ isDragging = FALSE
    /\ dragCtl = NoDrag
    /\ pc = "profile"
    /\ pass = 0
    /\ dispLog = <<>>
    /\ falloffHeight = 0
    /\ falloffMultiplier = One
    /\ exportOut = NoExport
    /\ pendingLoads = <<>>
    /\ page = LoadedPage
    /\ events = 0

NextProfile ==
    \/ PointerDownAnchor
    \/ PointerDownHandle
    \/ PointerDownEmpty
    \/ PointerMove
    \/ PointerUp
    \/ DblClickAnchor
    \/ DblClickCurve
    \/ KeyDelete

SpecProfile == InitProfile /\ [][NextProfile]_vars

\* the height of an anchor
HeightOf(anchor) == anchor.position[2]

\* C14: after any sequence of anchor drags, handle drags, insertions, deletions
\* and smooth toggles the first anchor has height 0 and the last anchor has
\* height TotalHeight.
C14_EndpointsPinned ==
    /\ HeightOf(loftBezierAnchors[1]) = 0
    /\ HeightOf(loftBezierAnchors[Len(loftBezierAnchors)]) = TotalHeight

\* C15: after any sequence of anchor drags, insertions and deletions the anchor
\* list is ordered by non-decreasing height.
C15_HeightOrdered ==
    \A i \in 1..(Len(loftBezierAnchors) - 1) :
        HeightOf(loftBezierAnchors[i]) <= HeightOf(loftBezierAnchors[i + 1])

\* C16: in every state reached from initialization by smooth toggles (on any
\* anchor, the two ends included), handle drags, anchor drags, insertions and
\* deletions, every anchor whose smooth flag is set has handleIn = -handleOut.
C16_SmoothHandlesMirrored ==
    \A i \in DOMAIN loftBezierAnchors :
        loftBezierAnchors[i].isSmooth =>
            loftBezierAnchors[i].handleIn =
                << -loftBezierAnchors[i].handleOut[1], -loftBezierAnchors[i].handleOut[2] >>

\* the first anchor, a corner with handleIn 0 at the start, has been made
\* smooth and one of its handles has then been dragged, with the other
\* following as its mirror image
C16_Witness ==
    /\ loftBezierAnchors[1].isSmooth
    /\ loftBezierAnchors[1].position = << DefaultRadius, 0 >>
    /\ loftBezierAnchors[1].handleOut \notin { <<0, 0>>, <<0, DefaultHandle>> }
    /\ loftBezierAnchors[1].handleIn =
          << -loftBezierAnchors[1].handleOut[1], -loftBezierAnchors[1].handleOut[2] >>
    /\ selectedHandle # "null"

\* the heights at which the radius is asked for: below, at and above the ends
\* of the axis, and a grid in between
ProbeHeights ==
    { -UnitLen, 0, TotalHeight, TotalHeight + UnitLen }
      \cup { (k * TotalHeight) \div 8 : k \in 1..7 } \cup { 1, TotalHeight - 1 }

\* C17: for every anchor list the editor can produce (unordered ones included)
\* and every height h, getRadiusAtHeight is at least 0.1; at h <= 0 it is
\* max(0.1, radius of the first anchor), at h >= TotalHeight it is the radius
\* of the last anchor.
C17_RadiusFloor ==
    \A h \in ProbeHeights :
        LET radius == getRadiusAtHeight(loftBezierAnchors, h)
        IN  /\ radius >= MinRadius
            /\ h <= 0 => radius = Max(MinRadius, loftBezierAnchors[1].position[1])
            /\ h >= TotalHeight =>
                  radius = loftBezierAnchors[Len(loftBezierAnchors)].position[1]

\* the anchors are out of height order, and a segment that brackets one of the
\* heights has a curve running inside the minimum radius, where
\* getRadiusAtHeight answers with the minimum
C17_Witness ==
    /\ \E i \in 1..(Len(loftBezierAnchors) - 1) :
          HeightOf(loftBezierAnchors[i]) > HeightOf(loftBezierAnchors[i + 1])
    /\ \E h \in ProbeHeights :
          /\ 0 < h /\ h < TotalHeight
          /\ getRadiusAtHeight(loftBezierAnchors, h) = MinRadius
          /\ \E i \in 1..(Len(loftBezierAnchors) - 1), n \in ClickParameters :
                /\ h >= HeightOf(loftBezierAnchors[i])
                /\ h <= HeightOf(loftBezierAnchors[i + 1])
                /\ BezierPoint(loftBezierAnchors[i], loftBezierAnchors[i + 1], n)[1]
                      < MinRadius

\* the displacement sliders' values
DisplacementOf(params) == << params.displacementScale, params.displacementBias >>

\* the saved values of the drag
SavedDisplacement == << dragCtl.temporaryDisplacementScale, dragCtl.temporaryDisplacementBias >>

\* C18: a pointerdown that reduces the displacement saves the values of just
\* before it and rebuilds with 0.3 times them; as long as no pointerup has
\* come, further pointer events (repeated pointerdowns included) leave the
\* saved and the reduced values alone; the next pointerup puts the saved
\* values back and rebuilds once, so that after a pointerup the displacement
\* is never a reduced one.
C18_DragReduceRestore ==
    /\ [](~dragCtl.displacementDisabledForDrag =>
            \E start \in ProfileStarts :
                DisplacementOf(loftParams) = DisplacementOf(start.params))
    /\ [][/\ (~dragCtl.displacementDisabledForDrag /\ dragCtl'.displacementDisabledForDrag)
              => /\ SavedDisplacement' = DisplacementOf(loftParams)
                 /\ loftParams' = ReducedForDrag(loftParams)
                 /\ Scene' = updateLoftGeometry(loftParams', loftBezierAnchors', currentTexture')
          /\ (dragCtl.displacementDisabledForDrag /\ dragCtl'.displacementDisabledForDrag)
              => /\ SavedDisplacement' = SavedDisplacement
                 /\ loftParams' = loftParams
          /\ (dragCtl.displacementDisabledForDrag /\ ~dragCtl'.displacementDisabledForDrag)
              => /\ ~isDragging'
                 /\ DisplacementOf(loftParams') = SavedDisplacement
                 /\ Scene' = updateLoftGeometry(loftParams', loftBezierAnchors', currentTexture')
          /\ (~dragCtl.displacementDisabledForDrag /\ ~dragCtl'.displacementDisabledForDrag)
              => loftParams' = loftParams]_vars

\* two pointerdowns on anchors without a pointerup between them, an anchor
\* dragged at reduced displacement, then the pointerup: the sliders' values are
\* back and the mesh is the rebuild of the dragged profile at full displacement
C18_Witness ==
    /\ events = MaxEdits
    /\ ~isDragging
    /\ ~dragCtl.displacementDisabledForDrag
    /\ SavedDisplacement = DisplacementOf(DefaultParams)
    /\ loftParams = DefaultParams
    /\ currentTexture = "checker"
    /\ loftBezierAnchors # InitAnchors
    /\ Len(loftBezierAnchors) = NumAnchors
    /\ Scene = updateLoftGeometry(loftParams, loftBezierAnchors, currentTexture)
    /\ Scene # updateLoftGeometry(ReducedForDrag(loftParams), loftBezierAnchors,
                                  currentTexture)

-----------------------------------------------------------------------------
(* SpecShort: the profile editor on a profile that earlier deletions have     *)
(* left with three anchors, no texture loaded.                                *)

\* loftBezierAnchors.splice(index, 1)
RemoveAnchor(anchors, index) ==
    SubSeq(anchors, 1, index) \o SubSeq(anchors, index + 2, Len(anchors))

\* the default profile after its second anchor has been deleted twice
ShortAnchors == RemoveAnchor(RemoveAnchor(InitAnchors, 1), 1)

InitShort ==
    /\ loftParams = DefaultParams
    /\ currentTexture = "null"
    /\ loftBezierAnchors = ShortAnchors
    /\ loftMesh = updateLoftGeometry(loftParams, loftBezierAnchors, currentTexture).loftMesh
    /\ capMeshes = updateLoftGeometry(loftParams, loftBezierAnchors, currentTexture).capMeshes
    /\ selectedAnchorIndex = -1
    /\ selectedHandle = "null"
    /\ isDragging = FALSE
    /\ dragCtl = NoDrag
    /\ pc = "profile"
    /\ pass = 0
    /\ dispLog = <<>>
    /\ falloffHeight = 0
    /\ falloffMultiplier = One
    /\ exportOut = NoExport
    /\ pendingLoads = <<>>
    /\ page = LoadedPage
    /\ events = 0

NextShort == NextProfile

SpecShort == InitShort /\ [][NextShort]_vars

\* C22: whenever the anchor list gets shorter, the anchor removed is the selected
\* one, it is an interior anchor (0 < index < length - 1), the first and the last
\* anchor stay where they are, and the selection is cleared; and the list never
\* has fewer than 2 anchors, whatever is inserted and deleted.
C22_EndpointProtection ==
    /\ [](Len(loftBezierAnchors) >= 2)
    /\ [][Len(loftBezierAnchors') < Len(loftBezierAnchors) =>
            /\ selectedAnchorIndex > 0
            /\ selectedAnchorIndex < Len(loftBezierAnchors) - 1
            /\ loftBezierAnchors' = RemoveAnchor(loftBezierAnchors, selectedAnchorIndex)
            /\ loftBezierAnchors'[1] = loftBezierAnchors[1]
            /\ loftBezierAnchors'[Len(loftBezierAnchors')]
                  = loftBezierAnchors[Len(loftBezierAnchors)]
            /\ selectedAnchorIndex' = -1]_vars

\* the interior anchor has been deleted and an end anchor is selected: the two
\* anchors left are the end anchors, which no key event removes
C22_Witness ==
    /\ Len(loftBezierAnchors) = 2
    /\ loftBezierAnchors = << ShortAnchors[1], ShortAnchors[Len(ShortAnchors)] >>
    /\ selectedAnchorIndex \in {0, 1}
    /\ events = MaxEdits

-----------------------------------------------------------------------------

(* SpecTexture: the Load Image and Remove Texture buttons and the            *)
(* displacement scale slider, with the image decodes in flight.  A handler    *)
(* runs to completion: nothing else is handled while the rebuild that a       *)
(* completed load has invoked is running (pc is then not "done").             *)

\* the files the user picks: two images, and a file that does not decode
Files == {"white", "checker", "broken"}

\* the list without its k-th entry
Without(loads, k) == SubSeq(loads, 1, k - 1) \o SubSeq(loads, k + 1, Len(loads))

InitTexture ==
    /\ loftParams = DefaultParams
    /\ loftBezierAnchors = InitAnchors
    /\ currentTexture = "null"
    /\ loftMesh = updateLoftGeometry(DefaultParams, InitAnchors, "null").loftMesh
    /\ capMeshes = updateLoftGeometry(DefaultParams, InitAnchors, "null").capMeshes
    /\ selectedAnchorIndex = -1
    /\ selectedHandle = "null"
    /\ isDragging = FALSE
    /\ dragCtl = NoDrag
    /\ pc = "done"
    /\ pass = 0
    /\ dispLog = <<>>
    /\ falloffHeight = 0
    /\ falloffMultiplier = One
    /\ exportOut = NoExport
    /\ pendingLoads = <<>>
    /\ page = LoadedPage
    /\ events = 0

\* input.onchange with a file: loadImageTexture starts the FileReader and the
\* handler waits for its promise
StartLoad ==
    \E file \in Files :
        /\ pc = "done"
        /\ events < MaxEvents
        /\ events' = events + 1
        /\ pendingLoads' = Append(pendingLoads, file)
        /\ UNCHANGED <<loftParams, loftBezierAnchors, currentTexture, loftMesh, capMeshes,
                       dragVars, stepVars, falloffHeight, falloffMultiplier, exportOut,
                       page>>

\* a load completes and the texture is made current, but the rebuild is left out
CompleteLoadWithoutRebuild ==
    \E k \in DOMAIN pendingLoads :
        /\ pc = "done"
        /\ pendingLoads' = Without(pendingLoads, k)
        /\ currentTexture' = IF pendingLoads[k] = "broken" THEN currentTexture
                             ELSE pendingLoads[k]
        /\ UNCHANGED <<loftParams, loftBezierAnchors, loftMesh, capMeshes, dragVars,
                       stepVars, falloffHeight, falloffMultiplier, exportOut, page,
                       events>>

\* a completion handler that drops the result of a load when a load started
\* after it is still in flight
CompleteLoadIfLatest ==
    \E k \in DOMAIN pendingLoads :
        /\ pc = "done"
        /\ pendingLoads' = Without(pendingLoads, k)
        /\ IF pendingLoads[k] = "broken" \/ k < Len(pendingLoads)
           THEN UNCHANGED <<currentTexture, pc>>
           ELSE /\ currentTexture' = pendingLoads[k]
                /\ pc' = IF loftParams.displacementScale # 0
                            \/ loftParams.displacementBias # 0
                         THEN "create" ELSE "done"
        /\ UNCHANGED <<loftParams, loftBezierAnchors, loftMesh, capMeshes, dragVars,
                       pass, dispLog, falloffHeight, falloffMultiplier, exportOut, page,
                       events>>

\* one of the loads in flight completes, in any order.  img.onerror rejects the
\* promise: the handler alerts and nothing changes.  img.onload resolves it:
\* applyTextureToLoft makes the texture current and, if a displacement is set,
\* calls updateLoftGeometry (pc = "create": the rebuild runs before anything else)
CompleteLoad ==
    \E k \in DOMAIN pendingLoads :
        /\ pc = "done"
        /\ pendingLoads' = Without(pendingLoads, k)
        /\ IF pendingLoads[k] = "broken"
           THEN UNCHANGED <<currentTexture, pc>>
           ELSE /\ currentTexture' = pendingLoads[k]
                /\ pc' = IF loftParams.displacementScale # 0
                            \/ loftParams.displacementBias # 0
                         THEN "create" ELSE "done"
        /\ UNCHANGED <<loftParams, loftBezierAnchors, loftMesh, capMeshes, dragVars,
                       pass, dispLog, falloffHeight, falloffMultiplier, exportOut, page,
                       events>>

NextTexture ==
    \/ StartLoad
    \/ CompleteLoad
    \/ (pc = "done" /\ RemoveTexture)
    \/ (pc = "done" /\ SetDisplacementScale)
    \/ NextRebuild

SpecTexture == InitTexture /\ [][NextTexture]_vars

\* this step is the completion of a load
LoadCompletes == Len(pendingLoads') < Len(pendingLoads)

\* the file of the load that completes in this step
CompletedFile ==
    pendingLoads[CHOOSE k \in DOMAIN pendingLoads : pendingLoads' = Without(pendingLoads, k)]

\* this step is the completion of a load whose image has been decoded
DecodeCompletes == LoadCompletes /\ CompletedFile # "broken"

\* C23 as claimed: every completion of an image decode invokes
\* updateLoftGeometry once.
C23_EveryDecodeRebuilds ==
    [][DecodeCompletes => pc' = "create"]_vars

\* C23: every completion of an image decode makes the decoded texture the
\* current one and invokes updateLoftGeometry once if displacementScale or
\* displacementBias is not 0, and not at all if both are 0; either way, once the
\* completion handler has returned the body and the caps are what a rebuild with
\* the new texture gives, so a displacement that was skipped for want of a
\* texture is applied without further user action.
C23_DecodeRebuildsIfDisplaced ==
    /\ [][DecodeCompletes =>
            /\ currentTexture' = CompletedFile
            /\ pc' = IF DisplacementApplies(loftParams, CompletedFile)
                     THEN "create" ELSE "done"]_vars
    /\ [](pc = "done" =>
            Scene = updateLoftGeometry(loftParams, loftBezierAnchors, currentTexture))

\* the only event was the choice of the checker image: its decode has
\* completed, the rebuild it invoked has run, and the body is displaced
C23_Witness ==
    /\ events = 1
    /\ pendingLoads = <<>>
    /\ currentTexture = "checker"
    /\ pc = "done"
    /\ DisplacementApplies(loftParams, currentTexture)
    /\ loftMesh.pos # updateLoftGeometry(loftParams, loftBezierAnchors, "null").loftMesh.pos

-----------------------------------------------------------------------------

\* this step is the Remove Texture button
RemoveCompletes == pc = "done" /\ RemoveTexture

\* C29: for any interleaving of load starts, load completions and Remove
\* Texture, currentTexture is null at first, every completed decode makes its
\* texture the current one (whatever was started or removed since the load
\* began), Remove Texture makes it null, and nothing else changes it: it is the
\* texture of the last decode completed after the last Remove Texture.
C29_LastCompletionWins ==
    /\ currentTexture = "null"
    /\ [][/\ DecodeCompletes => currentTexture' = CompletedFile
          /\ RemoveCompletes => currentTexture' = "null"
          /\ currentTexture' # currentTexture => DecodeCompletes \/ RemoveCompletes]_vars

\* two events, one of them Remove Texture (the bias is 0, which only that
\* button does in one event): the decode of the white image has completed
\* after the button was pressed and its texture is the current one
C29_Witness ==
    /\ events = 2
    /\ pendingLoads = <<>>
    /\ pc = "done"
    /\ loftParams.displacementScale = 0
    /\ loftParams.displacementBias = 0
    /\ currentTexture = "white"

(* SpecFalloff: calls of calculateDisplacementFalloff for every falloff       *)
(* setting of the model and every height of a grid over [0, 1].               *)

\* heights are k / HeightSteps
HeightSteps == 20

Heights == { RDiv(k * UvOne, HeightSteps) : k \in 0..HeightSteps }

\* zone widths the sliders admit (0 .. 0.5), in hundredths
ZoneWidths == {0, 20, 45, 50}

\* falloff powers the slider admits (0.5 .. 4), in tenths
Powers == {5, 10, 15, 20, 40}

InitFalloff ==
    /\ loftParams \in
          { [DefaultParams EXCEPT !.falloffEnabled = e, !.falloffTop = top,
                                  !.falloffBottom = bottom, !.falloffPower = power] :
              e \in BOOLEAN, top \in ZoneWidths, bottom \in ZoneWidths, power \in Powers }
    /\ loftBezierAnchors = InitAnchors
    /\ currentTexture = "null"
    /\ loftMesh = NoGeometry
    /\ capMeshes = NoCaps
    /\ pc = "falloff"
    /\ pass = 0
    /\ dispLog = <<>>
    /\ selectedAnchorIndex = -1
    /\ selectedHandle = "null"
    /\ isDragging = FALSE
    /\ dragCtl = NoDrag
    /\ falloffHeight = 0
    /\ falloffMultiplier = One
    /\ exportOut = NoExport
    /\ pendingLoads = <<>>
    /\ page = LoadedPage
    /\ events = 0

\* one call calculateDisplacementFalloff(v, loftParams) and its return value
CallFalloff ==
    \E v \in Heights :
        /\ pc \in {"falloff", "falloffReturned"}
        /\ falloffHeight' = v
        /\ falloffMultiplier' = calculateDisplacementFalloff(v, loftParams)
        /\ pc' = "falloffReturned"
        /\ UNCHANGED <<loftParams, loftBezierAnchors, currentTexture, loftMesh, capMeshes,
                       dragVars, pass, dispLog, exportOut, pendingLoads, page, events>>

NextFalloff == CallFalloff

SpecFalloff == InitFalloff /\ [][NextFalloff]_vars

InBottomZone(v, params) == v * UnitLen < params.falloffBottom * UvOne

InTopZone(v, params) ==
    ~InBottomZone(v, params) /\ v * UnitLen > (UnitLen - params.falloffTop) * UvOne

\* what the claim says of every zone, apart from the value at v = 0: 1.0 at
\* v = falloffBottom, rising through the bottom zone, falling through the top
\* zone, 1.0 between the zones, and 1.0 everywhere with falloff disabled
FalloffShape ==
    LET v == falloffHeight
        m == falloffMultiplier
    IN  IF ~loftParams.falloffEnabled THEN m = One
        ELSE /\ v * UnitLen = loftParams.falloffBottom * UvOne => m = One
             /\ InBottomZone(v, loftParams) =>
                    \A w \in Heights :
                        w <= v => calculateDisplacementFalloff(w, loftParams) <= m
             /\ InTopZone(v, loftParams) =>
                    \A w \in Heights :
                        w >= v => calculateDisplacementFalloff(w, loftParams) <= m
             /\ (~InBottomZone(v, loftParams) /\ ~InTopZone(v, loftParams)) => m = One

\* C6: with falloff enabled, calculateDisplacementFalloff returns 1.0 at
\* v = falloffBottom, 0.0 at v = 0 when falloffBottom > 0 and 1.0 at v = 0 when
\* falloffBottom = 0, is non-decreasing in v inside the bottom zone,
\* non-increasing inside the top zone and 1.0 between the zones; with falloff
\* disabled it returns 1.0 for every v.
C6_FalloffValues ==
    pc = "falloffReturned" =>
        /\ FalloffShape
        /\ (loftParams.falloffEnabled /\ falloffHeight = 0) =>
              falloffMultiplier = (IF loftParams.falloffBottom > 0 THEN 0 ELSE One)

\* C6 as claimed: 0.0 at v = 0 for every admissible falloffBottom, 0 included
C6_ZeroAtBottomAlways ==
    pc = "falloffReturned" =>
        /\ FalloffShape
        /\ (loftParams.falloffEnabled /\ falloffHeight = 0) => falloffMultiplier = 0

\* calls with falloff enabled have returned 0.0 at v = 0 for a bottom zone and a
\* value strictly between 0 and 1 inside a zone
C6_Witness ==
    /\ pc = "falloffReturned"
    /\ loftParams.falloffEnabled
    /\ loftParams.falloffBottom > 0
    /\ loftParams.falloffTop > 0
    /\ InTopZone(falloffHeight, loftParams)
    /\ falloffMultiplier > 0
    /\ falloffMultiplier < One
    /\ calculateDisplacementFalloff(0, loftParams) = 0

-----------------------------------------------------------------------------
(* SpecExport: the export buttons and calls of the exported function          *)
(* exportMesh, on the editor as initLoftEditor and a texture load leave it.   *)
(* Geometries are shared by reference between a mesh and its clones: `heap`   *)
(* maps the names of the geometries to their values.  Exported coordinates    *)
(* are in thousandths (lengths in hundredths times a scale in tenths).        *)

\* export scales of the model, in tenths: 0.5, 1.0 and the default 10.0
ExportScales == {5, 10, DefaultExportScale}

\* a geometry with a position attribute of count 0
EmptyGeometry == NoGeometry

\* one triangle whose first vertex is (1, 2, 3)
ScenarioGeometry ==
    [pos |-> [i \in 0..2 |-> << UnitLen * (i + 1), UnitLen * 2, UnitLen * 3 >>],
     nrm |-> [i \in 0..2 |-> << 0, One, 0 >>],
     uv  |-> [i \in 0..2 |-> << 0, 0 >>],
     idx |-> << <<0, 1, 2>> >>]

Heap(mesh, caps) ==
    [loft |-> mesh, bottom |-> caps.bottom, top |-> caps.top,
     empty |-> EmptyGeometry, scenario |-> ScenarioGeometry]

\* prepareGeometryForSTL: the message of the error it throws, or "none"
prepareGeometryForSTL(geometry) ==
    IF Count(geometry) = 0 THEN "Geometry has no vertices" ELSE "none"

\* a swap that leaves y and z in place
SwapYZKept(p) == p

SwapYZ(p) == << p[1], p[3], p[2] >>

\* a processGeometryForExport that leaves the normals as they are
processGeometryForExportPositionsOnly(geometry, scale, swapYZ) ==
    LET scaled(p) == << p[1] * scale, p[2] * scale, p[3] * scale >>
        out == [geometry EXCEPT
                  !.pos = [i \in DOMAIN geometry.pos |->
                             IF swapYZ THEN SwapYZ(scaled(geometry.pos[i]))
                             ELSE scaled(geometry.pos[i])]]
    IN  [geometry |-> out, thrown |-> prepareGeometryForSTL(out)]

\* processGeometryForExport: scales every position, swaps y and z of positions
\* and normals if asked, then prepares the geometry
processGeometryForExport(geometry, scale, swapYZ) ==
    LET scaled(p) == << p[1] * scale, p[2] * scale, p[3] * scale >>
        out == [geometry EXCEPT
                  !.pos = [i \in DOMAIN geometry.pos |->
                             IF swapYZ THEN SwapYZ(scaled(geometry.pos[i]))
                             ELSE scaled(geometry.pos[i])],
                  !.nrm = [i \in DOMAIN geometry.nrm |->
                             IF swapYZ THEN SwapYZ(geometry.nrm[i])
                             ELSE geometry.nrm[i]]]
    IN  [geometry |-> out, thrown |-> prepareGeometryForSTL(out)]

\* a clone whose geometry is still the one it shares with its original
WriteToShared(heap, ref, geometry) == [heap EXCEPT ![ref] = geometry]

\* child.geometry = child.geometry.clone(): what processGeometryForExport
\* writes lands in the clone, the shared geometry keeps its value
WriteToClone(heap, ref, geometry) == heap

\* the traversal of createExportClone over the children from the k-th on
RECURSIVE ProcessChildren(_, _, _, _, _, _)
ProcessChildren(heap, refs, k, scale, swapYZ, done) ==
    IF k > Len(refs) THEN [heap |-> heap, exportObject |-> done, thrown |-> "none"]
    ELSE LET result == processGeometryForExport(heap[refs[k]], scale, swapYZ)
             after  == WriteToClone(heap, refs[k], result.geometry)
         IN  IF result.thrown # "none"
             THEN [heap |-> after, exportObject |-> done, thrown |-> result.thrown]
             ELSE ProcessChildren(after, refs, k + 1, scale, swapYZ,
                                  Append(done, result.geometry))

createExportClone(heap, mesh, scale, swapYZ) ==
    ProcessChildren(heap, mesh.children, 1, scale, swapYZ, <<>>)

RECURSIVE TotalVertices(_, _)
TotalVertices(geometries, n) ==
    IF n = 0 THEN 0 ELSE Count(geometries[n]) + TotalVertices(geometries, n - 1)

\* exportMesh: the heap it leaves and what it has produced: the files handed
\* to downloadFile, the alerts shown, and the error that left the call
exportMesh(heap, call) ==
    LET clone == createExportClone(heap, call, call.scale, call.swapYZ)
        total == TotalVertices(clone.exportObject, Len(clone.exportObject))
        out(files, alerts, thrown) ==
            [heap |-> clone.heap,
             exportOut |-> [call |-> call, files |-> files, alerts |-> alerts,
                            thrown |-> thrown, exportObject |-> clone.exportObject]]
    IN  IF clone.thrown # "none" THEN out(<<>>, <<>>, clone.thrown)
        ELSE IF total = 0
        THEN out(<<>>, <<>>, IF call.kind = "Mesh" THEN "Export mesh has no valid geometry"
                             ELSE "Export group has no valid geometry")
        ELSE IF call.format = "stl"
        THEN out(<< [name |-> call.filename \o ".stl",
                     binary |-> call.filename = "loft_model_binary",
                     data |-> clone.exportObject] >>, <<>>, "none")
        ELSE IF call.format = "obj"
        THEN out(<< [name |-> call.filename \o ".obj", binary |-> FALSE,
                     data |-> clone.exportObject] >>, <<>>, "none")
        ELSE out(<<>>, <<>>, "none")

Call(kind, children, format, filename, scale, swapYZ) ==
    [kind |-> kind, children |-> children, format |-> format, filename |-> filename,
     scale |-> scale, swapYZ |-> swapYZ]

\* the live meshes and the export record after a call of exportMesh
Exported(result) ==
    /\ loftMesh' = result.heap.loft
    /\ capMeshes' = [bottom |-> result.heap.bottom, top |-> result.heap.top]
    /\ exportOut' = result.exportOut
    /\ pc' = "exported"
    /\ UNCHANGED <<loftParams, loftBezierAnchors, currentTexture, dragVars, pass, dispLog,
                   falloffHeight, falloffMultiplier, pendingLoads, page, events>>

\* a button handler: alerts and returns if there is no model, else exports the
\* group of the clones of body and caps
ExportButton(children, format, filename) ==
    /\ pc \in {"export", "exported"}
    /\ IF loftMesh = NoGeometry
       THEN Exported([heap |-> Heap(loftMesh, capMeshes),
                      exportOut |-> [NoExport EXCEPT !.alerts =
                          << "No model to export. Please create a model first." >>]])
       ELSE Exported(exportMesh(Heap(loftMesh, capMeshes),
                                Call("Group", children, format, filename,
                                     loftParams.exportScale, TRUE)))

exportSTL == ExportButton(<<"loft", "bottom", "top">>, "stl", "loft_model")

exportOBJ == ExportButton(<<"loft", "top">>, "obj", "loft_model")

exportSTLBinary == ExportButton(<<"loft", "bottom", "top">>, "stl", "loft_model_binary")

\* the objects a caller of exportMesh passes in the model
ApiObjects ==
    { [kind |-> "Mesh", children |-> <<"loft">>],
      [kind |-> "Mesh", children |-> <<"scenario">>],
      [kind |-> "Mesh", children |-> <<"empty">>],
      [kind |-> "Group", children |-> <<>>],
      [kind |-> "Group", children |-> <<"loft", "empty", "top">>] }

\* a direct call exportMesh(mesh, format, filename, scale, swapYZ)
ExportMeshCall ==
    \E object \in ApiObjects, format \in {"stl", "obj"}, swapYZ \in BOOLEAN :
        /\ pc \in {"export", "exported"}
        /\ Exported(exportMesh(Heap(loftMesh, capMeshes),
                               Call(object.kind, object.children, format, "model",
                                    loftParams.exportScale, swapYZ)))

InitExport ==
    /\ loftParams \in
          { [ParamsOf(r, s, 0, <<50, -10>>, "horizontal",
                      [falloffEnabled |-> TRUE, falloffTop |-> 20, falloffBottom |-> 20])
               EXCEPT !.exportScale = e] :
              r \in MinRings..MaxRings, s \in MinSegments..MaxSegments, e \in ExportScales }
    /\ loftBezierAnchors = InitAnchors
    /\ currentTexture \in {"null", "checker"}
    /\ loftMesh = updateLoftGeometry(loftParams, loftBezierAnchors, currentTexture).loftMesh
    /\ capMeshes = updateLoftGeometry(loftParams, loftBezierAnchors, currentTexture).capMeshes
    /\ pc = "export"
    /\ pass = 0
    /\ dispLog = <<>>
    /\ selectedAnchorIndex = -1
    /\ selectedHandle = "null"
    /\ isDragging = FALSE
    /\ dragCtl = NoDrag
    /\ falloffHeight = 0
    /\ falloffMultiplier = One
    /\ exportOut = NoExport
    /\ pendingLoads = <<>>
    /\ page = LoadedPage
    /\ events = 0

NextExport ==
    \/ exportSTL
    \/ exportOBJ
    \/ exportSTLBinary
    \/ ExportMeshCall

SpecExport == InitExport /\ [][NextExport]_vars

\* C8: every export, button or direct call, successful or failed, leaves the
\* live body mesh and both cap meshes as they were.
C8_LiveMeshUntouched == [][Scene' = Scene]_vars

\* an export of the live body has produced a file whose first geometry is the
\* scaled and swapped copy, and the live meshes are still the rebuild result
C8_Witness ==
    /\ pc = "exported"
    /\ exportOut.files # <<>>
    /\ exportOut.call.children[1] = "loft"
    /\ exportOut.exportObject[1].pos # loftMesh.pos
    /\ Scene = updateLoftGeometry(loftParams, loftBezierAnchors, currentTexture)

\* C9: every exported vertex (x, y, z) with normal (nx, ny, nz) is written as
\* (s*x, s*z, s*y) with normal (nx, nz, ny) when swapYZ is set, and as
\* (s*x, s*y, s*z) with the normal unchanged when it is not.
C9_ExportTransform ==
    pc = "exported" =>
        \A k \in DOMAIN exportOut.exportObject :
            LET source == Heap(loftMesh, capMeshes)[exportOut.call.children[k]]
                out    == exportOut.exportObject[k]
                s      == exportOut.call.scale
            IN  \A i \in DOMAIN source.pos :
                    LET p == source.pos[i]
                        n == source.nrm[i]
                    IN  IF exportOut.call.swapYZ
                        THEN /\ out.pos[i] = << s * p[1], s * p[3], s * p[2] >>
                             /\ out.nrm[i] = << n[1], n[3], n[2] >>
                        ELSE /\ out.pos[i] = << s * p[1], s * p[2], s * p[3] >>
                             /\ out.nrm[i] = n

\* scale 10 with swap has mapped the vertex (1, 2, 3) to (10, 30, 20)
C9_Witness ==
    /\ pc = "exported"
    /\ exportOut.call.children = <<"scenario">>
    /\ exportOut.call.scale = DefaultExportScale
    /\ exportOut.call.swapYZ
    /\ exportOut.files # <<>>
    /\ exportOut.exportObject[1].pos[0] = << 10 * One, 30 * One, 20 * One >>
    /\ exportOut.exportObject[1].nrm[0] = << 0, 0, One >>

\* the object of the last export holds a geometry without vertices, or no
\* geometry at all
ZeroVertexExport ==
    \/ exportOut.call.children = <<>>
    \/ \E k \in DOMAIN exportOut.call.children :
          Count(Heap(loftMesh, capMeshes)[exportOut.call.children[k]]) = 0

\* C10: an export whose cloned geometry has zero vertices downloads no file,
\* shows a failure message, and lets no exception leave the export call.
C10_EmptyExportFailsCleanly ==
    (pc = "exported" /\ exportOut.call.kind # "none" /\ ZeroVertexExport) =>
        /\ exportOut.files = <<>>
        /\ exportOut.alerts # <<>>
        /\ exportOut.thrown = "none"

\* the last export came from one of the three export buttons and wrote a file
ButtonExport ==
    /\ pc = "exported"
    /\ exportOut.call.filename \in {"loft_model", "loft_model_binary"}
    /\ exportOut.files # <<>>

\* C11: every export button (STL ASCII, STL binary, OBJ) writes the body, the
\* bottom cap and the top cap, so the three formats hold the same closed mesh.
C11_AllFormatsExportBodyAndCaps ==
    ButtonExport =>
        exportOut.files[1].data =
            << processGeometryForExport(loftMesh, exportOut.call.scale, TRUE).geometry,
               processGeometryForExport(capMeshes.bottom, exportOut.call.scale, TRUE).geometry,
               processGeometryForExport(capMeshes.top, exportOut.call.scale, TRUE).geometry >>

\* six times the signed volume of the tetrahedron (o, a, b, c): positive when
\* the triangle a, b, c, seen from o, runs clockwise, that is when its
\* right-hand-rule normal points away from o
SignedVolume(o, a, b, c) ==
    LET u == << a[1] - o[1], a[2] - o[2], a[3] - o[3] >>
        v == << b[1] - o[1], b[2] - o[2], b[3] - o[3] >>
        w == << c[1] - o[1], c[2] - o[2], c[3] - o[3] >>
    IN  u[1] * (v[2] * w[3] - v[3] * w[2])
      - u[2] * (v[1] * w[3] - v[3] * w[1])
      + u[3] * (v[1] * w[2] - v[2] * w[1])

\* every triangle of the geometry, taken in index order, has its
\* right-hand-rule normal pointing away from the point o
WoundAwayFrom(geometry, o) ==
    \A t \in DOMAIN geometry.idx :
        SignedVolume(o, geometry.pos[geometry.idx[t][1]],
                        geometry.pos[geometry.idx[t][2]],
                        geometry.pos[geometry.idx[t][3]]) > 0

\* the exported geometry in scene units (the export scale is positive, so the
\* orientation of a triangle is the same before and after the division)
InSceneUnits(geometry, scale) ==
    [geometry EXCEPT !.pos = [i \in DOMAIN geometry.pos |->
        << geometry.pos[i][1] \div scale, geometry.pos[i][2] \div scale,
           geometry.pos[i][3] \div scale >>]]

\* the last export wrote, with y and z swapped, a file of body and caps only
SwappedSolidExport ==
    /\ pc = "exported"
    /\ exportOut.files # <<>>
    /\ exportOut.call.swapYZ
    /\ \A k \in DOMAIN exportOut.call.children :
          exportOut.call.children[k] \in {"loft", "bottom", "top"}

\* C12: in the exported geometry (scaled, y and z swapped, index order kept)
\* every body triangle and every cap triangle has its right-hand-rule normal
\* pointing out of the solid, that is away from the middle of its axis, which
\* after the swap is the point (0, 0, height / 2).
C12_ExportedWindingOutward ==
    SwappedSolidExport =>
        \A k \in DOMAIN exportOut.exportObject :
            WoundAwayFrom(InSceneUnits(exportOut.exportObject[k], exportOut.call.scale),
                          << 0, 0, TotalHeight \div 2 >>)

\* an STL button has exported body, bottom cap and top cap of a displaced
\* model, and the body's first triangle is wound away from the axis
C12_Witness ==
    /\ SwappedSolidExport
    /\ exportOut.call.children = <<"loft", "bottom", "top">>
    /\ currentTexture # "null"
    /\ Len(exportOut.exportObject) = 3
    /\ Len(exportOut.exportObject[1].idx) >= 2 * MinSegments * (MinRings - 1)
    /\ Len(exportOut.exportObject[2].idx) >= MinSegments
    /\ Len(exportOut.exportObject[3].idx) >= MinSegments
    /\ WoundAwayFrom(InSceneUnits(exportOut.exportObject[1], exportOut.call.scale),
                     << 0, 0, TotalHeight \div 2 >>)

(* SpecMerge: calls of the exported function mergeGeometries.  An input is a  *)
(* geometry with the field `indexed`: FALSE for a geometry without an index   *)
(* (getIndex() is null), whose triangles are its vertices taken three by      *)
(* three.                                                                     *)

\* most geometries in one call
MaxInputs == 3

\* a geometry whose count vertices lie on a line from `at`, every vertex with
\* the normal +z and a uv of its own
Strip(at, count, idx, indexed) ==
    [pos |-> [i \in 0..count - 1 |-> << at + i, at, 0 >>],
     nrm |-> [i \in 0..count - 1 |-> << 0, 0, One >>],
     uv  |-> [i \in 0..count - 1 |-> << at + i, 0 >>],
     idx |-> idx, indexed |-> indexed]

\* geometries handed to mergeGeometries, by name: an indexed triangle, an
\* indexed quad, a triangle and a pair of triangles without an index
MergeInputs ==
    [triangle |-> Strip(10, 3, << <<0, 1, 2>> >>, TRUE),
     quad     |-> Strip(20, 4, << <<0, 1, 2>>, <<0, 2, 3>> >>, TRUE),
     soup     |-> Strip(30, 3, << >>, FALSE),
     soup2    |-> Strip(40, 6, << >>, FALSE)]

\* a cap geometry that is null
Null == [null |-> TRUE]

\* the attribute arrays of the inputs one after the other
RECURSIVE Concatenated(_, _, _)
Concatenated(geometries, attribute, k) ==
    IF k = 0 THEN << >>
    ELSE LET g == geometries[k]
         IN  Concatenated(geometries, attribute, k - 1)
               \o [i \in 1..Count(g) |-> g[attribute][i - 1]]

\* the loop of mergeGeometries over the first k inputs: the indices pushed so
\* far and indexOffset
RECURSIVE MergedIndices(_, _)
MergedIndices(geometries, k) ==
    IF k = 0 THEN [indices |-> << >>, indexOffset |-> 0]
    ELSE LET g    == geometries[k]
             done == MergedIndices(geometries, k - 1)
         IN  IF g.indexed
             THEN [indices |-> done.indices \o
                                 [t \in 1..Len(g.idx) |->
                                     [c \in 1..3 |-> g.idx[t][c] + done.indexOffset]],
                   indexOffset |-> done.indexOffset + Count(g)]
             ELSE done

mergeGeometries(geometries) ==
    LET positions == Concatenated(geometries, "pos", Len(geometries))
        normals   == Concatenated(geometries, "nrm", Len(geometries))
        uvs       == Concatenated(geometries, "uv", Len(geometries))
        indices   == MergedIndices(geometries, Len(geometries)).indices
    IN  [pos |-> [i \in 0..Len(positions) - 1 |-> positions[i + 1]],
         nrm |-> [i \in 0..Len(normals) - 1 |-> normals[i + 1]],
         uv  |-> [i \in 0..Len(uvs) - 1 |-> uvs[i + 1]],
         idx |-> indices,
         indexed |-> indices # << >>]

\* body first, then the caps that are not null
createWatertightMesh(bodyGeometry, bottomCapGeometry, topCapGeometry) ==
    mergeGeometries(<< bodyGeometry >>
                      \o (IF bottomCapGeometry = Null THEN << >>
                          ELSE << bottomCapGeometry >>)
                      \o (IF topCapGeometry = Null THEN << >>
                          ELSE << topCapGeometry >>))

\* a BufferGeometry of the editor: it has an index
Indexed(geometry) ==
    [pos |-> geometry.pos, nrm |-> geometry.nrm, uv |-> geometry.uv,
     idx |-> geometry.idx, indexed |-> TRUE]

InitMerge ==
    /\ loftParams = DefaultParams
    /\ loftBezierAnchors = InitAnchors
    /\ currentTexture = "null"
    /\ loftMesh = updateLoftGeometry(DefaultParams, InitAnchors, "null").loftMesh
    /\ capMeshes = updateLoftGeometry(DefaultParams, InitAnchors, "null").capMeshes
    /\ selectedAnchorIndex = -1
    /\ selectedHandle = "null"
    /\ isDragging = FALSE
    /\ dragCtl = NoDrag
    /\ pc = "merge"
    /\ pass = 0
    /\ dispLog = <<>>
    /\ falloffHeight = 0
    /\ falloffMultiplier = One
    /\ \E n \in 1..MaxInputs :
          \E geometries \in [1..n -> DOMAIN MergeInputs \cup {"body", "bottom"}] :
              exportOut = [NoExport EXCEPT !.call.kind = "mergeGeometries",
                                           !.call.children = geometries]
    /\ pendingLoads = <<>>
    /\ page = LoadedPage
    /\ events = 0

\* the arguments of the call: "body" and "bottom" name geometries of the editor
Arguments ==
    [k \in DOMAIN exportOut.call.children |->
        LET g == exportOut.call.children[k]
        IN  IF g = "body" THEN Indexed(loftMesh)
            ELSE IF g = "bottom" THEN Indexed(capMeshes.bottom)
            ELSE MergeInputs[g]]

\* the call returns: exportObject holds the merged geometry
CallMerge ==
    /\ pc = "merge"
    /\ pc' = "merged"
    /\ exportOut' = [exportOut EXCEPT !.exportObject = << mergeGeometries(Arguments) >>]
    /\ UNCHANGED <<loftParams, loftBezierAnchors, currentTexture, loftMesh, capMeshes,
                   dragVars, pass, dispLog, falloffHeight, falloffMultiplier,
                   pendingLoads, page, events>>

\* createWatertightMesh on the body and the caps of the editor, with or without
\* a bottom cap
CallWatertight ==
    \E bottom \in {"null", "bottom"} :
        /\ pc = "merge"
        /\ pc' = "watertight"
        /\ exportOut' =
              [exportOut EXCEPT
                 !.call.children = << "body" >>
                     \o (IF bottom = "null" THEN << >> ELSE << "bottom" >>) \o << "top" >>,
                 !.exportObject =
                     << createWatertightMesh(Indexed(loftMesh),
                            IF bottom = "null" THEN Null ELSE Indexed(capMeshes.bottom),
                            Indexed(capMeshes.top)) >>]
        /\ UNCHANGED <<loftParams, loftBezierAnchors, currentTexture, loftMesh, capMeshes,
                       dragVars, pass, dispLog, falloffHeight, falloffMultiplier,
                       pendingLoads, page, events>>

NextMerge ==
    \/ CallMerge
    \/ CallWatertight

SpecMerge == InitMerge /\ [][NextMerge]_vars

\* the vertices of the inputs before the k-th
RECURSIVE VerticesBefore(_, _)
VerticesBefore(geometries, k) ==
    IF k <= 1 THEN 0
    ELSE VerticesBefore(geometries, k - 1) + Count(geometries[k - 1])

\* C27: after mergeGeometries has returned, every index of an input appears in
\* the merged index raised by the number of vertices of the inputs before it, so
\* that the merged triangle has the three vertex positions of its source, and
\* every merged index is less than the number of merged vertices.
C27_MergePreservesTriangles ==
    pc = "merged" =>
        LET merged == exportOut.exportObject[1]
        IN  /\ \A k \in DOMAIN Arguments :
                  Arguments[k].indexed =>
                      \A t \in DOMAIN Arguments[k].idx :
                          \E m \in DOMAIN merged.idx :
                              \A c \in 1..3 :
                                  /\ merged.idx[m][c] = Arguments[k].idx[t][c]
                                                          + VerticesBefore(Arguments, k)
                                  /\ merged.pos[merged.idx[m][c]]
                                       = Arguments[k].pos[Arguments[k].idx[t][c]]
            /\ \A m \in DOMAIN merged.idx :
                  \A c \in 1..3 : merged.idx[m][c] < Count(merged)

-----------------------------------------------------------------------------

(* SpecPage: main.ts around the editor.  The module is evaluated once, at any *)
(* readyState of the document; the browser fires DOMContentLoaded once and    *)
(* beforeunload whenever a navigation away is attempted, before or after the  *)
(* module has run.  initLoftEditor throws where it creates the WebGLRenderer  *)
(* if the browser gives no WebGL context.                                     *)

\* beforeunload events followed
MaxUnloads == 2

InitPage ==
    /\ loftParams = DefaultParams
    /\ loftBezierAnchors = <<>>
    /\ currentTexture = "null"
    /\ loftMesh = NoGeometry
    /\ capMeshes = NoCaps
    /\ selectedAnchorIndex = -1
    /\ selectedHandle = "null"
    /\ isDragging = FALSE
    /\ dragCtl = NoDrag
    /\ pc = "done"
    /\ pass = 0
    /\ dispLog = <<>>
    /\ falloffHeight = 0
    /\ falloffMultiplier = One
    /\ exportOut = NoExport
    /\ pendingLoads = <<>>
    /\ \E readyState \in {"loading", "interactive", "complete"}, webgl \in BOOLEAN :
          page = [readyState |-> readyState, webgl |-> webgl, evaluated |-> FALSE,
                  domListener |-> FALSE, initRoutes |-> <<>>, initReturned |-> FALSE,
                  loftEditor |-> FALSE, unloads |-> 0, disposeCalls |-> 0,
                  logged |-> 0, escaped |-> FALSE]
    /\ events = 0

\* init with the reference for cleanup stored before the editor is set up
initStoringFirst(p, route) ==
    LET entered == [p EXCEPT !.initRoutes = Append(@, route), !.loftEditor = TRUE]
    IN  IF p.webgl
        THEN [entered EXCEPT !.initReturned = TRUE]
        ELSE [entered EXCEPT !.logged = @ + 1]

\* init: the try block runs initializeGlobalState, createAppContainer,
\* appendChild and initLoftEditor, and then stores window.loftEditor; what
\* initLoftEditor throws is caught and logged with console.error
init(p, route) ==
    LET entered == [p EXCEPT !.initRoutes = Append(@, route)]
        thrown == ~p.webgl
        insideTry == TRUE
    IN  IF ~thrown
        THEN [entered EXCEPT !.initReturned = TRUE, !.loftEditor = TRUE]
        ELSE IF insideTry
             THEN [entered EXCEPT !.logged = @ + 1]
             ELSE [entered EXCEPT !.escaped = TRUE]

\* the editor once a call of initLoftEditor that this step made has returned:
\* the default anchors and the first build of the body
EditorOf(p) ==
    IF p.initReturned /\ ~page.initReturned
    THEN /\ loftBezierAnchors' = InitAnchors
         /\ Show(updateLoftGeometry(DefaultParams, InitAnchors, "null"))
    ELSE UNCHANGED <<loftBezierAnchors, loftMesh, capMeshes>>

\* the module main.ts is evaluated: the beforeunload listener is added, then
\* init is registered for DOMContentLoaded or called at once
EvaluateMain ==
    /\ ~page.evaluated
    /\ LET listening == [page EXCEPT !.evaluated = TRUE]
       IN  /\ page' = IF page.readyState = "loading"
                      THEN [listening EXCEPT !.domListener = TRUE]
                      ELSE init(listening, "immediate")
           /\ EditorOf(page')
    /\ UNCHANGED <<loftParams, currentTexture, dragVars, stepVars, falloffHeight,
                   falloffMultiplier, exportOut, pendingLoads, events>>

\* the document has been parsed: its listeners run
DOMContentLoaded ==
    /\ page.readyState = "loading"
    /\ LET parsed == [page EXCEPT !.readyState = "interactive"]
       IN  /\ page' = IF page.domListener THEN init(parsed, "DOMContentLoaded")
                      ELSE parsed
           /\ EditorOf(page')
    /\ UNCHANGED <<loftParams, currentTexture, dragVars, stepVars, falloffHeight,
                   falloffMultiplier, exportOut, pendingLoads, events>>

\* the load event of the window
WindowLoad ==
    /\ page.readyState = "interactive"
    /\ page' = [page EXCEPT !.readyState = "complete"]
    /\ UNCHANGED <<loftParams, loftBezierAnchors, currentTexture, loftMesh, capMeshes,
                   dragVars, stepVars, falloffHeight, falloffMultiplier, exportOut,
                   pendingLoads, events>>

\* beforeunload: the listener, if the module has added it, calls
\* window.loftEditor.dispose if window.loftEditor is set; disposeLoftEditor
\* disposes the texture and the caps and sets them to null
BeforeUnload ==
    /\ page.unloads < MaxUnloads
    /\ LET disposes == page.evaluated /\ page.loftEditor
       IN  /\ page' = [page EXCEPT !.unloads = @ + 1,
                                   !.disposeCalls = IF disposes THEN @ + 1 ELSE @]
           /\ IF disposes
              THEN currentTexture' = "null" /\ capMeshes' = NoCaps
              ELSE UNCHANGED <<currentTexture, capMeshes>>
    /\ UNCHANGED <<loftParams, loftBezierAnchors, loftMesh, dragVars, stepVars,
                   falloffHeight, falloffMultiplier, exportOut, pendingLoads, events>>

\* the Load Image button of an editor that has been set up and not disposed
LoadImage ==
    /\ page.initReturned
    /\ page.disposeCalls = 0
    /\ LoadTexture

NextPage ==
    \/ EvaluateMain
    \/ DOMContentLoaded
    \/ WindowLoad
    \/ BeforeUnload
    \/ LoadImage

SpecPage == InitPage /\ [][NextPage]_vars

\* this step is a beforeunload event
Unloads == page'.unloads = page.unloads + 1

\* C30: init is entered at most once per page load, by one route; nothing
\* thrown during initialization escapes it (a failed initLoftEditor is logged);
\* and a beforeunload event calls the editor's dispose function if and only if
\* initLoftEditor had returned without throwing.
C30_PageLifecycle ==
    /\ [](/\ Len(page.initRoutes) <= 1
          /\ ~page.escaped
          /\ (page.initRoutes # <<>> /\ ~page.initReturned => page.logged = 1))
    /\ [][Unloads => (page'.disposeCalls = page.disposeCalls + 1 <=> page.initReturned)]_vars

\* init ran on DOMContentLoaded and the editor was set up; of two beforeunload
\* events, the one before it called nothing and the one after it called dispose
C30_Witness ==
    /\ page.initRoutes = <<"DOMContentLoaded">>
    /\ page.initReturned
    /\ page.unloads = 2
    /\ page.disposeCalls = 1
    /\ capMeshes = NoCaps

-----------------------------------------------------------------------------

=============================================================================
